---- MODULE Spec2Model ----
(***************************************************************************)
(* Model of the FitzHugh-Nagumo knot simulation                            *)
(* (FN_knot_surface_openmp.cpp): grid indexing and neighbour lookup, the   *)
(* field-file readers and the initialisation part of main, the OpenMP      *)
(* time loop of main with the integrator's work-sharing loops, and the     *)
(* control flow of the filament tracker.                                   *)
(***************************************************************************)
EXTENDS Integers, Sequences, FiniteSets, TLC

VARIABLES nb, rd, pc, sh, grid, acc, fk, ar, crv, io

vars == <<nb, rd, pc, sh, grid, acc, fk, ar, crv, io>>

(***************************************************************************)
(* Bounds of the model.                                                    *)
(***************************************************************************)
\* grid extents (200 x 200 x 200 in the source, lines 48-50)
Nx == 3
Ny == 1
Nz == 2
\* largest extent for which the neighbour lookups are enumerated
MaxExtent == 6

NCells == Nx * Ny * Nz

(***************************************************************************)
(* Grid and boundary abstraction.                                          *)
(***************************************************************************)
\* flat index of cell (i,j,k)
pt(i, j, k) == i * Ny * Nz + j * Nz + k

\* the % of C on ints: the quotient truncates towards zero, so the result
\* has the sign of the dividend
CMod(a, b) == IF a >= 0 THEN a % b ELSE 0 - ((0 - a) % b)

\* clamp(x, lo, hi)
Clamp(x, lo, hi) == IF x < lo THEN lo ELSE IF x > hi THEN hi ELSE x

\* clamped (reflecting) neighbour lookup: clamp(i+delta, 0, extent-1)
incw(i, p, N) == Clamp(i + p, 0, N - 1)

incp_nowrap(i, p, N) == CMod(i + p, N)
\* periodic neighbour lookup: ((i+delta) mod extent + extent) mod extent
incp(i, p, N) == CMod(CMod(i + p, N) + N, N)

\* the z neighbour of k under the active z policy
zinc(k, p, periodic) == IF periodic THEN incp(k, p, Nz) ELSE incw(k, p, Nz)

Cells == {c \in (0 .. Nx - 1) \X (0 .. Ny - 1) \X (0 .. Nz - 1) : TRUE}

UpdateReads_raw(i, j, k, periodic) ==
    { pt(i + 1, j, k), pt(i - 1, j, k), pt(i, j + 1, k), pt(i, j - 1, k),
      pt(i, j, k + 1), pt(i, j, k - 1), pt(i, j, k) }
\* flat indices of u read for cell (i,j,k) by the Laplacian of uv_update
UpdateReads(i, j, k, periodic) ==
    { pt(incw(i, 1, Nx), j, k), pt(incw(i, -1, Nx), j, k),
      pt(i, incw(j, 1, Ny), k), pt(i, incw(j, -1, Ny), k),
      pt(i, j, zinc(k, 1, periodic)), pt(i, j, zinc(k, -1, periodic)),
      pt(i, j, k) }

\* flat indices of u read for cell (i,j,k) by the Laplacian of
\* uv_update_euler, and the index of D2u written
EulerReads(i, j, k, periodic) ==
    { pt(incw(i, 1, Nx), j, k), pt(incw(i, -1, Nx), j, k),
      pt(i, incw(j, 1, Ny), k), pt(i, incw(j, -1, Ny), k),
      pt(i, j, zinc(k, 1, periodic)), pt(i, j, zinc(k, -1, periodic)),
      pt(i, j, k) }

\* flat indices of u and v read for cell (i,j,k) by crossgrad_calc
\* (the central differences do not read the cell itself)
CrossgradReads(i, j, k, periodic) ==
    { pt(incw(i, 1, Nx), j, k), pt(incw(i, -1, Nx), j, k),
      pt(i, incw(j, 1, Ny), k), pt(i, incw(j, -1, Ny), k),
      pt(i, j, zinc(k, 1, periodic)), pt(i, j, zinc(k, -1, periodic)) }

(***************************************************************************)
(* Idle values of the state of each part.                                  *)
(***************************************************************************)
NbIdle == [op |-> "none", i |-> 0, d |-> 0, N |-> 0, per |-> FALSE,
           res |-> 0, cell |-> <<0, 0, 0>>, reads |-> {}]

(***************************************************************************)
(* SpecIdx: the neighbour lookups and the stencils applied to every input. *)
(***************************************************************************)
CallIncw ==
    /\ \E N \in 1 .. MaxExtent : \E i \in 0 .. N - 1 : \E d \in {-1, 1} :
           nb' = [NbIdle EXCEPT !.op = "incw", !.i = i, !.d = d, !.N = N,
                                !.res = incw(i, d, N)]
    /\ UNCHANGED <<rd, pc, sh, grid, acc, fk, ar, crv, io>>

CallIncp ==
    /\ \E N \in 1 .. MaxExtent : \E i \in 0 .. N - 1 : \E d \in {-1, 1} :
           nb' = [NbIdle EXCEPT !.op = "incp", !.i = i, !.d = d, !.N = N,
                                !.per = TRUE, !.res = incp(i, d, N)]
    /\ UNCHANGED <<rd, pc, sh, grid, acc, fk, ar, crv, io>>

\* one step up, then one step down, under the periodic policy
CallIncpUpDown ==
    /\ \E N \in 1 .. MaxExtent : \E i \in 0 .. N - 1 :
           nb' = [NbIdle EXCEPT !.op = "updown", !.i = i, !.d = 1, !.N = N,
                                !.per = TRUE,
                                !.res = incp(incp(i, 1, N), -1, N)]
    /\ UNCHANGED <<rd, pc, sh, grid, acc, fk, ar, crv, io>>

CallUpdateReads ==
    /\ \E c \in Cells : \E per \in BOOLEAN :
           nb' = [NbIdle EXCEPT !.op = "update", !.cell = c, !.per = per,
                                !.reads = UpdateReads(c[1], c[2], c[3], per)]
    /\ UNCHANGED <<rd, pc, sh, grid, acc, fk, ar, crv, io>>

CallEulerReads ==
    /\ \E c \in Cells : \E per \in BOOLEAN :
           nb' = [NbIdle EXCEPT !.op = "euler", !.cell = c, !.per = per,
                                !.reads = EulerReads(c[1], c[2], c[3], per)]
    /\ UNCHANGED <<rd, pc, sh, grid, acc, fk, ar, crv, io>>

CallCrossgradReads ==
    /\ \E c \in Cells : \E per \in BOOLEAN :
           nb' = [NbIdle EXCEPT !.op = "crossgrad", !.cell = c, !.per = per,
                                !.reads = CrossgradReads(c[1], c[2], c[3], per)
                                           \cup {pt(c[1], c[2], c[3])}]
    /\ UNCHANGED <<rd, pc, sh, grid, acc, fk, ar, crv, io>>

(***************************************************************************)
(* Field-file readers and the initialisation part of main.                 *)
(***************************************************************************)
FROM_PHI_FILE == 0
FROM_SURFACE_FILE == 1
FROM_UV_FILE == 2
FROM_FUNCTION == 3

\* header lines skipped before the first block of values
HeaderLines == 10
\* lines skipped between the u block and the v block
SepLines == 2

\* lines uvfile_read consumes: header, u block, separator, v block
UvLines == HeaderLines + NCells + SepLines + NCells
\* lines phi_file_read consumes: header, phi block
PhiLines == HeaderLines + NCells

\* A line of a file: a number in decimal notation (num) or other text.
NumLine(x) == [isnum |-> TRUE, num |-> x, txt |-> ""]
TextLine(t) == [isnum |-> FALSE, num |-> 0, txt |-> t]

\* ss << buff; ss >> x: the number on the line; a line that is no number
\* makes the extraction fail, which stores 0
Parse(line) == IF line.isnum THEN line.num ELSE 0

\* An input file: whether it can be opened, how many lines it holds,
\* whether its last line ends with a newline, and its lines (here line L
\* holds the number L).
Files == { [present |-> f.present, n |-> f.n, nl |-> f.nl,
            lines |-> [L \in 1 .. f.n |-> NumLine(L)]] :
           f \in { g \in [present : BOOLEAN, n : 0 .. UvLines + 1, nl : BOOLEAN] :
                     /\ (g.n = 0 => g.nl)
                     /\ (~g.present => (g.n = 0)) } }

\* ifstream fin(name): a file that cannot be opened sets failbit
Open(f) == [pos |-> 0, eof |-> FALSE, fail |-> ~f.present]

\* fin.good()
Good(s) == ~s.eof /\ ~s.fail

\* whether getline(fin, buff) extracts a line
GetlineOk(s, f) == Good(s) /\ s.pos < f.n

\* the stream after getline(fin, buff): a line that ends at the end of the
\* file without a newline sets eofbit; no character left sets eofbit and
\* failbit
Getline(s, f) ==
    IF ~Good(s) THEN [s EXCEPT !.fail = TRUE]
    ELSE IF s.pos < f.n
         THEN [pos |-> s.pos + 1, eof |-> (s.pos + 1 = f.n /\ ~f.nl),
               fail |-> FALSE]
         ELSE [s EXCEPT !.eof = TRUE, !.fail = TRUE]

\* the flat index written by the c-th pass of the readers' nested loops
\* (k outer, j middle, i inner)
ReadCell(c) == pt(c % Nx, (c \div Nx) % Ny, c \div (Nx * Ny))

NoField == [m \in 0 .. NCells - 1 |-> 0]

RdIdle == [pc |-> "idle", option |-> 0,
           file |-> [present |-> FALSE, n |-> 0, nl |-> TRUE, lines |-> <<>>],
           fin |-> [pos |-> 0, eof |-> FALSE, fail |-> FALSE],
           cnt |-> 0, ret |-> -1, area |-> 0,
           phi |-> NoField, u |-> NoField, v |-> NoField,
           uvfrom |-> "none", mainret |-> -1]

\* initialise_knot: the area of the surface read by init_from_surface_file
\* for FROM_SURFACE_FILE (a file that cannot be opened gives no triangle and
\* area 0; every triangle read has area 1 here), 0 for any other option
initialise_knot(option, f) ==
    IF option = FROM_SURFACE_FILE THEN (IF f.present THEN f.n ELSE 0) ELSE 0

\* main, lines 126-154: dispatch on the initialisation option
MainDispatch ==
    /\ rd.pc = "start"
    /\ IF rd.option = FROM_PHI_FILE
       THEN rd' = [rd EXCEPT !.pc = "phi_hdr", !.fin = Open(rd.file), !.cnt = 0]
       ELSE IF rd.option = FROM_UV_FILE
       THEN rd' = [rd EXCEPT !.pc = "uv_hdr", !.fin = Open(rd.file), !.cnt = 0]
       ELSE LET a == initialise_knot(rd.option, rd.file) IN
            IF a = 0
            THEN rd' = [rd EXCEPT !.pc = "exit", !.area = a, !.mainret = 1]
            ELSE rd' = [rd EXCEPT !.pc = "after_init", !.area = a,
                                  !.phi = [m \in 0 .. NCells - 1 |-> 1]]
    /\ UNCHANGED <<nb, pc, sh, grid, acc, fk, ar, crv, io>>

\* one pass of a loop that skips lines (the header or the separator)
SkipLine(at, count, next, fail) ==
    /\ rd.pc = at
    /\ IF Good(rd.fin)
       THEN rd' = [rd EXCEPT !.fin = Getline(rd.fin, rd.file),
                             !.cnt = IF rd.cnt + 1 = count THEN 0 ELSE rd.cnt + 1,
                             !.pc = IF rd.cnt + 1 = count THEN next ELSE at]
       ELSE rd' = [rd EXCEPT !.pc = fail, !.ret = 1]
    /\ UNCHANGED <<nb, pc, sh, grid, acc, fk, ar, crv, io>>

\* one pass of a loop that reads one value into field fld; the loop's end
\* closes the file and returns 0
ReadValue(at, fld, next, done, fail) ==
    /\ rd.pc = at
    /\ IF Good(rd.fin)
       THEN LET ok == GetlineOk(rd.fin, rd.file)
                m == ReadCell(rd.cnt)
                last == rd.cnt + 1 = NCells
                val == IF ok THEN Parse(rd.file.lines[rd.fin.pos + 1])
                       ELSE IF fld = "v" THEN 0 ELSE rd[fld][m]
            IN rd' = [rd EXCEPT !.fin = Getline(rd.fin, rd.file),
                                ![fld] = [rd[fld] EXCEPT ![m] = val],
                                !.cnt = IF last THEN 0 ELSE rd.cnt + 1,
                                !.pc = IF last THEN next ELSE at,
                                !.ret = IF last /\ done THEN 0 ELSE rd.ret]
       ELSE rd' = [rd EXCEPT !.pc = fail, !.ret = 1]
    /\ UNCHANGED <<nb, pc, sh, grid, acc, fk, ar, crv, io>>

\* phi_file_read
PhiHeader == SkipLine("phi_hdr", HeaderLines, "phi_val", "phi_ret")
PhiValue == ReadValue("phi_val", "phi", "phi_ret", TRUE, "phi_ret")

\* uvfile_read
UvHeader == SkipLine("uv_hdr", HeaderLines, "uv_u", "uv_ret")
UvReadU == ReadValue("uv_u", "u", "uv_sep", FALSE, "uv_ret")
UvSeparator == SkipLine("uv_sep", SepLines, "uv_v", "uv_ret")
UvReadV == ReadValue("uv_v", "v", "uv_ret", TRUE, "uv_ret")

\* main, line 129: phi_file_read(phi); the value returned is not used
MainAfterPhiRead ==
    /\ rd.pc = "phi_ret"
    /\ rd' = [rd EXCEPT !.pc = "after_init"]
    /\ UNCHANGED <<nb, pc, sh, grid, acc, fk, ar, crv, io>>

\* main, line 136: if(uvfile_read(u,v)) return 1;
MainAfterUvRead ==
    /\ rd.pc = "uv_ret"
    /\ IF rd.ret # 0
       THEN rd' = [rd EXCEPT !.pc = "exit", !.mainret = 1]
       ELSE rd' = [rd EXCEPT !.pc = "after_init", !.uvfrom = "file"]
    /\ UNCHANGED <<nb, pc, sh, grid, acc, fk, ar, crv, io>>

\* main, lines 158-162: u and v are computed from phi unless they were read
MainUvInitialise ==
    /\ rd.pc = "after_init"
    /\ rd' = [rd EXCEPT !.pc = "loop",
                        !.uvfrom = IF rd.option # FROM_UV_FILE THEN "phi" ELSE rd.uvfrom]
    /\ UNCHANGED <<nb, pc, sh, grid, acc, fk, ar, crv, io>>

(***************************************************************************)
(* The parallel time loop of main and the integrator's work-sharing loops. *)
(***************************************************************************)
\* threads of the team
NThreads == 2
\* TTime ranges over 0 .. MaxT, in units of 1/TimeDen
MaxT == 2
\* dtime, TTime and skiptime are multiples of 1/TimeDen
TimeDen == 2
\* starttime (line 53) and the time from which the curve is traced (line 219)
StartTime == 60
TraceFrom == 10
\* the detection threshold of crossgrad_calc, 0.1, in hundredths
KnotThreshold == 10

Threads == 1 .. NThreads
Rows == 0 .. Nx - 1

\* The content of a grid slot is named by the step and the stage of the
\* integrator it belongs to: Tag(s, 0) is the field at the start of step s,
\* Tag(s, l) the l-th intermediate state (or stage derivative) of step s.
\* Bad marks a value computed from operands of different stages.
Tag(s, l) == [s |-> s, l |-> l]
Bad == [s |-> -1, l |-> -1]

IntegratorArrays == {"u", "v", "uold", "vold", "ku", "kv", "kut", "kvt", "D2u"}

\* cells of row i (the inner j and k loops of every work-sharing loop)
RowCells(i) == { pt(i, j, k) : j \in 0 .. Ny - 1, k \in 0 .. Nz - 1 }
CellOf(m) == CHOOSE c \in Cells : pt(c[1], c[2], c[3]) = m
ReadsOf(m, periodic) == UpdateReads(CellOf(m)[1], CellOf(m)[2], CellOf(m)[3], periodic)

\* work-sharing loops of one integrator call, in program order.
\* RK4 (uv_update): 0 copy; 1,3,5,7 the derivative of stage l = 0..3;
\* 2,4,6 uv_add; 8 the final update.  Euler: 0 Laplacian, 1 update.
LastLoop(rk4) == IF rk4 THEN 8 ELSE 1
IsStage(rk4, L) == rk4 /\ L \in {1, 3, 5, 7}
StageOf(L) == (L - 1) \div 2

LoopHasBarrier_nowaitStage(rk4, L) == ~IsStage(rk4, L)
LoopHasBarrier_nowaitLast(rk4, L) == L # LastLoop(rk4)
\* every "#pragma omp for" of uv_update, uv_add and uv_update_euler is
\* without nowait: it ends with the implied barrier
LoopHasBarrier(rk4, L) == TRUE

\* loops that write u or v
WritesUV(rk4, L) == IF rk4 THEN L \in {2, 4, 6, 8} ELSE L = 1

\* slots read and written for cell m by loop L
LoopReads(rk4, L, m, periodic) ==
    IF rk4
    THEN IF L = 0 THEN {<<"u", m>>, <<"v", m>>}
         ELSE IF IsStage(rk4, L)
              THEN {<<"u", r>> : r \in ReadsOf(m, periodic)} \cup {<<"v", m>>}
         ELSE IF L = 8
              THEN {<<"uold", m>>, <<"vold", m>>, <<"kut", m>>, <<"kvt", m>>,
                    <<"ku", m>>, <<"kv", m>>}
         ELSE {<<"uold", m>>, <<"vold", m>>, <<"ku", m>>, <<"kv", m>>,
               <<"kut", m>>, <<"kvt", m>>}
    ELSE IF L = 0 THEN {<<"u", r>> : r \in ReadsOf(m, periodic)}
         ELSE {<<"u", m>>, <<"v", m>>, <<"D2u", m>>}

LoopWrites(rk4, L, m) ==
    IF rk4
    THEN IF L = 0 THEN {<<"uold", m>>, <<"vold", m>>, <<"kut", m>>, <<"kvt", m>>}
         ELSE IF IsStage(rk4, L) THEN {<<"ku", m>>, <<"kv", m>>}
         ELSE IF L = 8 THEN {<<"u", m>>, <<"v", m>>}
         ELSE {<<"u", m>>, <<"v", m>>, <<"kut", m>>, <<"kvt", m>>}
    ELSE IF L = 0 THEN {<<"D2u", m>>}
         ELSE {<<"u", m>>, <<"v", m>>}

\* the value an expression over the given operands has: the wanted tag when
\* every operand carries the tag expected of it
Combine(ok, tag) == IF ok THEN tag ELSE Bad

\* the arrays after loop L of step s has processed the cells ms
LoopEffect(g, rk4, L, s, ms, periodic) ==
    LET upd(name, val(_)) == [m \in 0 .. NCells - 1 |->
                                IF m \in ms THEN val(m) ELSE g[name][m]]
        l == StageOf(L)
    IN  IF rk4 /\ L = 0
        THEN LET zero(m) == Tag(s, 0)
                 cu(m) == g.u[m]
                 cv(m) == g.v[m]
             IN [g EXCEPT !.uold = upd("uold", cu), !.vold = upd("vold", cv),
                          !.kut = upd("kut", zero), !.kvt = upd("kvt", zero)]
        ELSE IF IsStage(rk4, L)
        THEN LET dku(m) == Combine((\A r \in ReadsOf(m, periodic) : g.u[r] = Tag(s, l))
                                     /\ g.v[m] = Tag(s, l), Tag(s, l))
                 dkv(m) == Combine(g.u[m] = Tag(s, l) /\ g.v[m] = Tag(s, l), Tag(s, l))
             IN [g EXCEPT !.ku = upd("ku", dku), !.kv = upd("kv", dkv)]
        ELSE IF rk4 /\ L = 8
        THEN LET nu(m) == Combine(g.uold[m] = Tag(s, 0) /\ g.kut[m] = Tag(s, 3)
                                    /\ g.ku[m] = Tag(s, 3), Tag(s + 1, 0))
                 nv(m) == Combine(g.vold[m] = Tag(s, 0) /\ g.kvt[m] = Tag(s, 3)
                                    /\ g.kv[m] = Tag(s, 3), Tag(s + 1, 0))
             IN [g EXCEPT !.u = upd("u", nu), !.v = upd("v", nv)]
        ELSE IF rk4
        THEN LET lp == (L - 2) \div 2
                 nu(m) == Combine(g.uold[m] = Tag(s, 0) /\ g.ku[m] = Tag(s, lp),
                                  Tag(s, lp + 1))
                 nv(m) == Combine(g.vold[m] = Tag(s, 0) /\ g.kv[m] = Tag(s, lp),
                                  Tag(s, lp + 1))
                 su(m) == Combine(g.kut[m] = Tag(s, lp) /\ g.ku[m] = Tag(s, lp),
                                  Tag(s, lp + 1))
                 sv(m) == Combine(g.kvt[m] = Tag(s, lp) /\ g.kv[m] = Tag(s, lp),
                                  Tag(s, lp + 1))
             IN [g EXCEPT !.u = upd("u", nu), !.v = upd("v", nv),
                          !.kut = upd("kut", su), !.kvt = upd("kvt", sv)]
        ELSE IF L = 0
        THEN LET lap(m) == Combine(\A r \in ReadsOf(m, periodic) : g.u[r] = Tag(s, 0),
                                   Tag(s, 0))
             IN [g EXCEPT !.D2u = upd("D2u", lap)]
        ELSE LET nu(m) == Combine(g.u[m] = Tag(s, 0) /\ g.v[m] = Tag(s, 0)
                                    /\ g.D2u[m] = Tag(s, 0), Tag(s + 1, 0))
                 \* line 1084 reads the u[n] that line 1083 has just written
                 nv(m) == Combine(nu(m) = Tag(s + 1, 0) /\ g.v[m] = Tag(s, 0),
                                  Tag(s + 1, 0))
             IN [g EXCEPT !.u = upd("u", nu), !.v = upd("v", nv)]

\* const bool periodic = false (line 37)
periodic == FALSE

AllSlots(names) == { <<a, m>> : a \in names, m \in 0 .. NCells - 1 }
NoAcc == [r |-> {}, w |-> {}]

\* The schedule of "#pragma omp for" without a schedule clause is static:
\* the rows 0 .. Nx-1 are cut into NThreads contiguous blocks, the first
\* Nx % NThreads of them one row longer.  Thread t owns block t-1.
NumRows(t) == (Nx \div NThreads) + (IF t - 1 < Nx % NThreads THEN 1 ELSE 0)
FirstRow(t) ==
    IF t - 1 < Nx % NThreads
    THEN ((Nx \div NThreads) + 1) * (t - 1)
    ELSE (Nx \div NThreads) * (t - 1) + (Nx % NThreads)
MyRows(t) == { i \in Rows : FirstRow(t) <= i /\ i < FirstRow(t) + NumRows(t) }

\* at: the position of the thread; it: the integrator calls it has returned
\* from; L: the work-sharing loop it is in; k: the rows of its block it has
\* done in that loop
PcStart == [at |-> "cond", it |-> 0, L |-> 0, k |-> 0]
PcIdle == [at |-> "idle", it |-> 0, L |-> 0, k |-> 0]

ShIdle == [n |-> 0, p |-> 0, q |-> 0, knotexists |-> TRUE, knotcurve |-> <<>>,
           writhe |-> <<"header">>, samples |-> <<>>, sampled |-> FALSE,
           ucvIt |-> -1, printed |-> <<>>, singles |-> 0,
           obs |-> {}, rk4 |-> TRUE, dt |-> 1, T |-> 0, skip |-> 1]

GridStart == [a \in IntegratorArrays |-> [m \in 0 .. NCells - 1 |-> Tag(0, 0)]]

\* while(n*dtime <= TTime), line 207: every thread reads the shared n
EvalCond(t) ==
    /\ pc[t].at = "cond"
    /\ pc' = [pc EXCEPT ![t].at = IF sh.n * sh.dt <= sh.T THEN "single" ELSE "end"]
    /\ acc' = [acc EXCEPT ![t].r = @ \cup {<<"n", 0>>}]
    /\ UNCHANGED <<nb, rd, sh, grid, fk, ar, crv, io>>

\* #pragma omp single, line 209: the first thread of the team to reach this
\* instance of the construct runs the block, the others go to its barrier
EncounterSingle(t) ==
    /\ pc[t].at = "single"
    /\ IF sh.singles <= pc[t].it
       THEN /\ sh' = [sh EXCEPT !.singles = pc[t].it + 1, !.obs = {},
                                 !.sampled = FALSE]
            /\ pc' = [pc EXCEPT ![t].at = "s_sample"]
       ELSE /\ pc' = [pc EXCEPT ![t].at = "s_bar"]
            /\ UNCHANGED sh
    /\ UNCHANGED <<nb, rd, grid, acc, fk, ar, crv, io>>

\* crossgrad_calc as main calls it: one default point is appended, point 0
\* receives the seed of sample q, and knotexists is set from the largest
\* magnitude mag (in hundredths)
crossgrad_calc(kc, q, mag) ==
    [knotcurve |-> [Append(kc, [seed |-> -1]) EXCEPT ![1] = [seed |-> q]],
     knotexists |-> ~(mag < KnotThreshold)]

\* lines 219-223: the block run when the curve is to be traced; the calls of
\* find_knot_properties and print_knot in it are commented out, so nothing
\* is appended to writhe.txt
TraceBlock(w) == w

\* lines 211-225 of the single block
SingleSample(t) ==
    /\ pc[t].at = "s_sample"
    /\ IF sh.n * sh.dt >= sh.q * TimeDen
       THEN \E mag \in {KnotThreshold - 1, KnotThreshold} :
              LET kc == IF sh.knotexists THEN <<>> ELSE sh.knotcurve
                  cg == crossgrad_calc(kc, sh.q, mag)
                  traced == sh.n * sh.dt + StartTime * TimeDen >= TraceFrom * TimeDen
                            /\ cg.knotexists
              IN /\ sh' = [sh EXCEPT
                            !.knotcurve = cg.knotcurve,
                            !.knotexists = cg.knotexists,
                            !.obs = {grid.u[m] : m \in 0 .. NCells - 1}
                                    \cup {grid.v[m] : m \in 0 .. NCells - 1},
                            !.ucvIt = pc[t].it,
                            !.writhe = IF traced THEN TraceBlock(sh.writhe) ELSE sh.writhe,
                            !.samples = Append(sh.samples,
                                               [n |-> sh.n, traced |-> traced]),
                            !.sampled = TRUE,
                            !.q = sh.q + 1]
                 /\ acc' = [acc EXCEPT
                              ![t].r = @ \cup AllSlots({"u", "v"})
                                         \cup {<<"n", 0>>, <<"q", 0>>},
                              ![t].w = @ \cup AllSlots({"ucvx", "ucvy", "ucvz"})
                                         \cup {<<"q", 0>>, <<"knotcurve", 0>>}]
       ELSE /\ sh' = [sh EXCEPT !.sampled = FALSE, !.obs = {}]
            /\ acc' = [acc EXCEPT ![t].r = @ \cup {<<"n", 0>>, <<"q", 0>>}]
    /\ pc' = [pc EXCEPT ![t].at = "s_print"]
    /\ UNCHANGED <<nb, rd, grid, fk, ar, crv, io>>

\* lines 227-232 of the single block
SinglePrint(t) ==
    /\ pc[t].at = "s_print"
    /\ IF sh.n * sh.dt >= sh.p * sh.skip
       THEN /\ sh' = [sh EXCEPT
                        !.obs = @ \cup {grid.u[m] : m \in 0 .. NCells - 1}
                                  \cup {grid.v[m] : m \in 0 .. NCells - 1},
                        !.printed = Append(@, [it |-> pc[t].it, ucvIt |-> sh.ucvIt]),
                        !.p = sh.p + 1]
            /\ acc' = [acc EXCEPT
                         ![t].r = @ \cup AllSlots({"u", "v", "ucvx", "ucvy", "ucvz"})
                                    \cup {<<"n", 0>>, <<"p", 0>>},
                         ![t].w = @ \cup {<<"p", 0>>}]
       ELSE /\ UNCHANGED sh
            /\ acc' = [acc EXCEPT ![t].r = @ \cup {<<"n", 0>>, <<"p", 0>>}]
    /\ pc' = [pc EXCEPT ![t].at = "s_inc"]
    /\ UNCHANGED <<nb, rd, grid, fk, ar, crv, io>>

\* line 234: n++, the last statement of the single block
SingleInc(t) ==
    /\ pc[t].at = "s_inc"
    /\ sh' = [sh EXCEPT !.n = sh.n + 1]
    /\ acc' = [acc EXCEPT ![t].w = @ \cup {<<"n", 0>>}]
    /\ pc' = [pc EXCEPT ![t].at = "s_bar"]
    /\ UNCHANGED <<nb, rd, grid, fk, ar, crv, io>>

\* the body of the loop for every cell of the next row of the thread's block
ProcessRow(t) ==
    /\ pc[t].at = "work"
    /\ pc[t].k < NumRows(t)
    /\ LET ms == RowCells(FirstRow(t) + pc[t].k) IN
         /\ grid' = LoopEffect(grid, sh.rk4, pc[t].L, pc[t].it, ms, periodic)
         /\ acc' = [acc EXCEPT
                      ![t].r = @ \cup UNION {LoopReads(sh.rk4, pc[t].L, m, periodic) : m \in ms},
                      ![t].w = @ \cup UNION {LoopWrites(sh.rk4, pc[t].L, m) : m \in ms}]
    /\ pc' = [pc EXCEPT ![t].k = @ + 1]
    /\ UNCHANGED <<nb, rd, sh, fk, ar, crv, io>>

\* where a thread goes after loop L: the next loop, or back to the loop
\* condition of main when uv_update (uv_update_euler) returns
Advance(p, rk4) ==
    IF p.L = LastLoop(rk4)
    THEN [at |-> "cond", it |-> p.it + 1, L |-> 0, k |-> 0]
    ELSE [at |-> "work", it |-> p.it, L |-> p.L + 1, k |-> 0]

\* a thread that has done its block reaches the end of the loop
LeaveLoop(t) ==
    /\ pc[t].at = "work"
    /\ pc[t].k = NumRows(t)
    /\ pc' = [pc EXCEPT ![t] = IF LoopHasBarrier(sh.rk4, pc[t].L)
                                THEN [@ EXCEPT !.at = "bar"]
                                ELSE Advance(@, sh.rk4)]
    /\ UNCHANGED <<nb, rd, sh, grid, acc, fk, ar, crv, io>>

\* "bar": the barrier that ends a work-sharing loop; "s_bar": the barrier
\* that ends the single block; "end": the barrier that ends the parallel
\* region
AtBarrier(p) == p.at \in {"bar", "s_bar", "end"}

\* A barrier lets the team go when every thread of the team has arrived.
\* Threads that wait at different barriers (which happens in no conforming
\* program) are either let go together, each past its own barrier, as here,
\* or stay blocked for ever, which is the behaviour that stops in that state.
BarrierRelease ==
    /\ \A t \in Threads : AtBarrier(pc[t])
    /\ pc' = [t \in Threads |->
                IF pc[t].at = "end" THEN [pc[t] EXCEPT !.at = "done"]
                ELSE IF pc[t].at = "s_bar"
                     THEN [pc[t] EXCEPT !.at = "work", !.L = 0, !.k = 0]
                     ELSE Advance(pc[t], sh.rk4)]
    /\ acc' = [t \in Threads |-> NoAcc]
    /\ UNCHANGED <<nb, rd, sh, grid, fk, ar, crv, io>>

(***************************************************************************)
(* The filament tracker: control flow of find_knot_properties.             *)
(* Positions are in units of the committed step 0.5*lambda/(32*pi), on the *)
(* x-y lattice; the interpolated unit tangent is an input, one of the four *)
(* axis directions.                                                        *)
(***************************************************************************)
\* closure is tested only for s > MinPoints (32 in the source, line 642)
MinPoints == 3
\* the ceiling on the point index (50000 in the source, line 643)
PointCeiling == 6
\* half the grid spacing h, in units of the committed step
HalfH == 1
\* the grid spacing h in committed steps (even, so that the cell centres are
\* lattice points)
HSteps == 2 * HalfH
\* points added after the loop to fill the gap to point 0 (line 651)
FillPoints == 15

\* lambda/(2*pi) is 32 committed steps: the closure tolerance in steps is
\* the same number as the minimum point count
TolSteps == MinPoints

\* (int) x for the rational num/den, den > 0: truncation towards zero
TruncDiv(num, den) == IF num >= 0 THEN num \div den ELSE 0 - ((0 - num) \div den)

\* idwn = (int) ((pos/h) - 0.5 + N/2.0), lines 550-552
CellIndex(pos, N) == TruncDiv(2 * pos + (N - 1) * HSteps, 2 * HSteps)

\* line 553
OutOfGrid(pos) ==
    \/ CellIndex(pos[1], Nx) < 0 \/ CellIndex(pos[2], Ny) < 0
    \/ CellIndex(pos[1], Nx) > Nx - 1 \/ CellIndex(pos[2], Ny) > Ny - 1

\* x[i] = (i+0.5-Nx/2.0)*h, lines 112-122
Centre(i, N) == ((2 * i + 1 - N) * HSteps) \div 2

Seeds == { <<Centre(i, Nx), Centre(j, Ny)>> : i \in 0 .. Nx - 1, j \in 0 .. Ny - 1 }
Directions == { <<1, 0>>, <<-1, 0>>, <<0, 1>>, <<0, -1>> }

Dist2(a, b) == (a[1] - b[1]) * (a[1] - b[1]) + (a[2] - b[2]) * (a[2] - b[2])

\* lines 587-589: the test point handed to the minimiser lies
\* 2*lambda/(32*pi), four committed steps, along the tangent
TestSteps == 4
TestPoint(cur, d) == <<cur[1] + TestSteps * d[1], cur[2] + TestSteps * d[2]>>

\* lines 1418-1419 of my_f and 1466-1467 of my_df: idwn and jdwn of the
\* point the minimiser evaluates the objective at; no test follows them
IndexOf(p) == <<CellIndex(p[1], Nx), CellIndex(p[2], Ny)>>

\* the index pairs of the cells of the grid
GridIndices == (0 .. Nx - 1) \X (0 .. Ny - 1)
\* the (int) cast of a NaN is undefined: any int, the same for every
\* coordinate, of which the model takes one below the grid, one in the
\* grid and one above it
AnyIndices == { <<0 - 1, 0 - 1>>, <<0, 0>>, <<Nx, Ny>> }

\* lines 570-571, 1434-1435, 1482-1483 and the subscripts of lines
\* 577-579, 1440-1442, 1487-1488: the cells of ucvx, ucvy, ucvz read for
\* the enclosing cell idx
FieldReads(idx) ==
    { <<incw(incw(idx[1], a, Nx), p, Nx), incw(idx[2], b, Ny)>> :
        a \in 0 .. 1, b \in 0 .. 1, p \in (0 - 1) .. 1 }
    \cup { <<incw(idx[1], a, Nx), incw(incw(idx[2], b, Ny), p, Ny)>> :
             a \in 0 .. 1, b \in 0 .. 1, p \in (0 - 1) .. 1 }

\* nan: the coordinates of the current point are NaN (the interpolated
\* tangent had norm 0 at an earlier point, lines 582-586); far: some point
\* of the curve was at least lambda/(2*pi) away from point 0; reads: the
\* index pairs (idwn, jdwn) that subscripted x and y while the last point
\* was placed (lines 562-563, 1426-1427, 1471-1472)
FkIdle == [pc |-> "idle", s |-> 1, p0 |-> <<0, 0>>, cur |-> <<0, 0>>,
           nan |-> FALSE, far |-> FALSE, why |-> "none", np |-> 1, t |-> 0,
           rows |-> <<>>, reads |-> {}]

\* line 553 for the point s-1.  For NaN coordinates the (int) casts of lines
\* 550-552 are undefined: the indices may lie inside or outside the grid.
MayBeOutside(f) == f.nan \/ OutOfGrid(f.cur)
MayBeInside(f) == f.nan \/ ~OutOfGrid(f.cur)

ClosedAt_nomin(p0, new, isnan, s) == ~isnan /\ Dist2(p0, new) < TolSteps * TolSteps
\* line 642: point s is closer to point 0 than lambda/(2*pi), and s > 32;
\* a comparison with NaN is false
ClosedAt(p0, new, isnan, s) ==
    ~isnan /\ Dist2(p0, new) < TolSteps * TolSteps /\ s > MinPoints

\* line 643
CeilingHit(s) == s > PointCeiling

\* line 553: the point s-1 lies in no cell of the grid: break
TrackBreak ==
    /\ fk.pc = "loop"
    /\ MayBeOutside(fk)
    /\ fk' = [fk EXCEPT !.pc = "tail", !.why = "out"]
    /\ UNCHANGED <<nb, rd, pc, sh, grid, acc, ar, crv, io>>

\* lines 554-644: point s is placed one committed step along the unit
\* tangent (<<0, 0>>: the interpolated vector is zero and its normalisation
\* gives NaN); the loop finishes on closure or on the ceiling; s++.
\* Before the point is placed the tangent is interpolated at point s-1,
\* whose indices passed line 553 (here), and the minimiser is set on the
\* test point and iterated (lines 607-619): my_f and my_df are evaluated
\* at the test point (there) and at the trial points of the line search,
\* of which the model takes one, the test point or a point one step from
\* it (trial)
TrackAdvance ==
    /\ fk.pc = "loop"
    /\ MayBeInside(fk)
    /\ \E d \in Directions \cup {<<0, 0>>} :
         LET new == <<fk.cur[1] + d[1], fk.cur[2] + d[2]>>
             isnan == fk.nan \/ d = <<0, 0>>
             closed == ClosedAt(fk.p0, new, isnan, fk.s)
             ceiling == CeilingHit(fk.s)
             test == TestPoint(fk.cur, d)
         IN
         \E here \in IF fk.nan THEN AnyIndices \cap GridIndices ELSE {IndexOf(fk.cur)},
            there \in IF isnan THEN AnyIndices ELSE {IndexOf(test)},
            trial \in IF isnan THEN {test}
                               ELSE {test} \cup { <<test[1] + e[1], test[2] + e[2]>> :
                                                    e \in Directions } :
            fk' = [fk EXCEPT !.cur = new, !.nan = isnan,
                             !.reads = {here, there}
                                 \cup (IF isnan THEN {} ELSE {IndexOf(trial)}),
                             !.far = fk.far \/ (~isnan /\ Dist2(fk.p0, new)
                                                            >= TolSteps * TolSteps),
                             !.s = fk.s + 1, !.np = fk.np + 1,
                             !.pc = IF closed \/ ceiling THEN "tail" ELSE "loop",
                             !.why = IF closed THEN "closed"
                                     ELSE IF ceiling THEN "ceiling" ELSE "none"]
    /\ UNCHANGED <<nb, rd, pc, sh, grid, acc, ar, crv, io>>

\* lines 647-931: whatever ended the loop, the gap is filled, the curve is
\* regularised, the integrals are evaluated and the row of time t is
\* appended to writhe.txt
TrackTail ==
    /\ fk.pc = "tail"
    /\ fk' = [fk EXCEPT !.pc = "done", !.np = fk.np + FillPoints,
                        !.rows = Append(fk.rows, fk.t)]
    /\ UNCHANGED <<nb, rd, pc, sh, grid, acc, ar, crv, io>>

(***************************************************************************)
(* crossgrad_calc on field values.  u and v are integers in units of h/5,  *)
(* so that a central difference 0.5*(a - b)/h is (a - b) tenths, a         *)
(* component of grad u x grad v is an integer number of hundredths and the *)
(* magnitude is the square root of an integer MagSq, in hundredths.        *)
(* Magnitudes are compared through their squares.                          *)
(***************************************************************************)
\* amplitudes of the input fields
Amplitudes == {0, 3, 0 - 5}

\* an input field: a*i + b*k + c*(i+j)*(k+j) at cell (i,j,k)
Field(a, b, c) ==
    [m \in 0 .. NCells - 1 |->
        a * CellOf(m)[1] + b * CellOf(m)[3]
        + c * (CellOf(m)[1] + CellOf(m)[2]) * (CellOf(m)[3] + CellOf(m)[2])]

InputFields == { Field(a, b, c) : a \in Amplitudes, b \in Amplitudes, c \in Amplitudes }
InputFieldsV == { Field(a, b, 0) : a \in Amplitudes, b \in Amplitudes }

\* lines 511-516: the central differences of f at cell (i,j,k), in tenths
Gradient(f, i, j, k, per) ==
    << f[pt(incw(i, 1, Nx), j, k)] - f[pt(incw(i, -1, Nx), j, k)],
       f[pt(i, incw(j, 1, Ny), k)] - f[pt(i, incw(j, -1, Ny), k)],
       f[pt(i, j, zinc(k, 1, per))] - f[pt(i, j, zinc(k, -1, per))] >>

\* lines 518-520: grad u x grad v, in hundredths
Cross(a, b) ==
    << a[2] * b[3] - a[3] * b[2], a[3] * b[1] - a[1] * b[3],
       a[1] * b[2] - a[2] * b[1] >>

\* the square of ucvmag of line 521
MagSq(w) == w[1] * w[1] + w[2] * w[2] + w[3] * w[3]

\* ucvmax = -1.0 of line 494, as a square: a negative number stands for it
NoMax == 0 - 1

Exceeds_orEqual(magsq, maxsq) == maxsq < 0 \/ magsq >= maxsq
\* line 522: ucvmag > ucvmax
Exceeds(magsq, maxsq) == maxsq < 0 \/ magsq > maxsq

\* line 532: ucvmax < 0.1
BelowThreshold(maxsq) == maxsq < 0 \/ maxsq < KnotThreshold * KnotThreshold

\* (x[i], y[j], z[k])
CellCentre(i, j, k) == << Centre(i, Nx), Centre(j, Ny), Centre(k, Nz) >>

\* a default-constructed knotpoint
NoPoint == << 0, 0, 0 >>

\* lines 493-494: a point is appended to knotcurve and ucvmax is set to -1
CgStart ==
    /\ ar.pc = "cg_start"
    /\ ar' = [ar EXCEPT !.pc = "cg_scan", !.knotcurve = Append(@, NoPoint),
                        !.ucvmax = NoMax, !.c = 0]
    /\ UNCHANGED <<nb, rd, pc, sh, grid, acc, fk, crv, io>>

\* lines 499-529 for the c-th cell of the scan (i outer, j middle, k inner:
\* the order of the flat index)
CgCell ==
    /\ ar.pc = "cg_scan"
    /\ ar.c < NCells
    /\ LET cell == CellOf(ar.c)
           w == Cross(Gradient(ar.u, cell[1], cell[2], cell[3], ar.per),
                      Gradient(ar.v, cell[1], cell[2], cell[3], ar.per))
           hit == Exceeds(MagSq(w), ar.ucvmax)
       IN ar' = [ar EXCEPT
                   !.ucv = [@ EXCEPT ![pt(cell[1], cell[2], cell[3])] = w],
                   !.ucvmax = IF hit THEN MagSq(w) ELSE @,
                   !.knotcurve = IF hit
                                 THEN [@ EXCEPT ![1] = CellCentre(cell[1], cell[2], cell[3])]
                                 ELSE @,
                   !.c = ar.c + 1]
    /\ UNCHANGED <<nb, rd, pc, sh, grid, acc, fk, crv, io>>

\* lines 532-533
CgFinish ==
    /\ ar.pc = "cg_scan"
    /\ ar.c = NCells
    /\ ar' = [ar EXCEPT !.pc = "cg_done",
                        !.knotexists = ~BelowThreshold(ar.ucvmax)]
    /\ UNCHANGED <<nb, rd, pc, sh, grid, acc, fk, crv, io>>

(***************************************************************************)
(* print_uv, and a restart of the program from the file it wrote.  A field *)
(* value is a decimal number given by an integer mantissa.                 *)
(***************************************************************************)
\* significant digits of operator<< for a double (no precision is set on
\* uvout, so the stream's default applies)
Precision == 6

Abs(x) == IF x < 0 THEN 0 - x ELSE x

RECURSIVE Pow10(_)
Pow10(k) == IF k = 0 THEN 1 ELSE 10 * Pow10(k - 1)

\* the weight of the last digit kept when x is written with Precision
\* significant digits
RECURSIVE LastDigitWeight(_, _)
LastDigitWeight(x, w) ==
    IF Abs(x) < Pow10(Precision) * w THEN w ELSE LastDigitWeight(x, 10 * w)

\* n rounded to a multiple of w, ties to even
RoundTo(n, w) ==
    LET q == Abs(n) \div w
        r == Abs(n) % w
        up == 2 * r > w \/ (2 * r = w /\ q % 2 = 1)
        a == (IF up THEN q + 1 ELSE q) * w
    IN IF n < 0 THEN 0 - a ELSE a

\* uvout << x: the number denoted by the text written for x
Format(x) == RoundTo(x, LastDigitWeight(x, 1))

\* lines 1099-1104: the ten lines written before the u block
HeaderText ==
    << TextLine("# vtk DataFile Version 3.0"), TextLine("UV fields"),
       TextLine("ASCII"), TextLine("DATASET STRUCTURED_POINTS"),
       TextLine("DIMENSIONS"), TextLine("ORIGIN"), TextLine("SPACING"),
       TextLine("POINT_DATA"), TextLine("SCALARS u float"),
       TextLine("LOOKUP_TABLE default") >>

\* lines 1119 and 1134: the two lines written before the v block and before
\* the block of cross-gradient magnitudes
BlockText(name) == << TextLine(name), TextLine("LOOKUP_TABLE default") >>

WriteCell_iOuter(c) == pt(c \div (Ny * Nz), (c \div Nz) % Ny, c % Nz)
\* the flat index written by the c-th pass of print_uv's nested loops
\* (k outer, j middle, i inner)
WriteCell(c) == pt(c % Nx, (c \div Nx) % Ny, c \div (Nx * Ny))

\* the fields print_uv is called on
IoBases == {0 - 3, 1234560}
IoSteps == {1, 7}
IoFields == { [m \in 0 .. NCells - 1 |-> b + d * m] : b \in IoBases, d \in IoSteps }

PrintHeader ==
    /\ io.pc = "wr_hdr"
    /\ io' = [io EXCEPT !.pc = "wr_u", !.lines = HeaderText, !.c = 0]
    /\ UNCHANGED <<nb, rd, pc, sh, grid, acc, fk, ar, crv>>

\* one pass of a loop that writes the value of field fld at one cell
PrintValue(at, fld, next) ==
    /\ io.pc = at
    /\ io' = [io EXCEPT
                !.lines = Append(@, NumLine(Format(io[fld][WriteCell(io.c)]))),
                !.c = IF io.c + 1 = NCells THEN 0 ELSE io.c + 1,
                !.pc = IF io.c + 1 = NCells THEN next ELSE at]
    /\ UNCHANGED <<nb, rd, pc, sh, grid, acc, fk, ar, crv>>

\* a statement that writes the two lines before a block
PrintBlockText(at, name, next) ==
    /\ io.pc = at
    /\ io' = [io EXCEPT !.lines = @ \o BlockText(name), !.pc = next]
    /\ UNCHANGED <<nb, rd, pc, sh, grid, acc, fk, ar, crv>>

PrintU == PrintValue("wr_u", "u", "wr_vtext")
PrintVText == PrintBlockText("wr_vtext", "SCALARS v float", "wr_v")
PrintV == PrintValue("wr_v", "v", "wr_ctext")
PrintUcvText == PrintBlockText("wr_ctext", "SCALARS ucrossv float", "wr_c")
PrintUcv == PrintValue("wr_c", "mag", "wr_close")

\* line 1148
PrintClose ==
    /\ io.pc = "wr_close"
    /\ io' = [io EXCEPT !.pc = "closed"]
    /\ UNCHANGED <<nb, rd, pc, sh, grid, acc, fk, ar, crv>>

\* the program is started again with option FROM_UV_FILE and B_filename
\* naming the file print_uv wrote (every line of it ends with a newline)
Restart ==
    /\ io.pc = "closed"
    /\ rd.pc = "idle"
    /\ io' = [io EXCEPT !.pc = "restarted"]
    /\ rd' = [RdIdle EXCEPT !.pc = "start", !.option = FROM_UV_FILE,
                            !.file = [present |-> TRUE, n |-> Len(io.lines),
                                      nl |-> TRUE, lines |-> io.lines]]
    /\ UNCHANGED <<nb, pc, sh, grid, acc, fk, ar, crv>>

(***************************************************************************)
(* The arithmetic of the integrator on field values.  A value is an exact  *)
(* rational <<numerator, denominator>> in lowest terms with a positive     *)
(* denominator; the operators are those of the doubles of the source       *)
(* without their rounding.                                                 *)
(***************************************************************************)
RECURSIVE Gcd(_, _)
Gcd(a, b) == IF b = 0 THEN a ELSE Gcd(b, a % b)

Rat(n, d) ==
    LET g == Gcd(Abs(n), Abs(d))
    IN  IF d < 0 THEN << (0 - n) \div g, (0 - d) \div g >>
        ELSE << n \div g, d \div g >>

Zero == << 0, 1 >>
Num(n) == << n, 1 >>

RAdd(a, b) ==
    LET g == Gcd(a[2], b[2])
    IN  Rat(a[1] * (b[2] \div g) + b[1] * (a[2] \div g), (a[2] \div g) * b[2])
RNeg(a) == << 0 - a[1], a[2] >>
RSub(a, b) == RAdd(a, RNeg(b))
RMul(a, b) ==
    LET x == Rat(a[1], b[2])
        y == Rat(b[1], a[2])
    IN  Rat(x[1] * y[1], x[2] * y[2])
RDiv(a, b) == RMul(a, Rat(b[2], b[1]))

\* const double dtime = 0.02 (line 54)
dtime == Rat(2, 100)
\* const double lambda = 21.3 (line 57)
lambda == Rat(213, 10)
\* const double size = 6*lambda (line 58)
size == RMul(Num(6), lambda)
\* const double h = size/(Nx-1) (line 59)
h == RDiv(size, Num(Nx - 1))
\* const double oneoverhsq = 1.0/(h*h) (line 60)
oneoverhsq == RDiv(Num(1), RMul(h, h))
\* const double epsilon = 0.3 (line 61)
epsilon == Rat(3, 10)
\* const double oneoverepsilon = 1.0/epsilon (line 62)
oneoverepsilon == RDiv(Num(1), epsilon)
\* const double beta = 0.7 (line 63)
beta == Rat(7, 10)
\* const double gam = 0.5 (line 64)
gam == Rat(5, 10)
\* the weight of the final RK4 combination (declared in FN_knot_surface.h)
sixth == Rat(1, 6)

\* the six neighbours of cell m read by the Laplacian, in the order of
\* the sum of lines 975 and 1070; a clamped neighbour of a boundary cell
\* is the cell itself
NeighbourSeq(m, per) ==
    LET i == CellOf(m)[1]
        j == CellOf(m)[2]
        k == CellOf(m)[3]
    IN  << pt(incw(i, 1, Nx), j, k), pt(incw(i, -1, Nx), j, k),
           pt(i, incw(j, 1, Ny), k), pt(i, incw(j, -1, Ny), k),
           pt(i, j, zinc(k, 1, per)), pt(i, j, zinc(k, -1, per)) >>

Stencil_dropBoundary(f, m, per) ==
    LET nbs == NeighbourSeq(m, per)
        term(q) == IF nbs[q] = m THEN Zero ELSE f[nbs[q]]
    IN  RSub(RAdd(RAdd(RAdd(RAdd(RAdd(term(1), term(2)), term(3)), term(4)),
                       term(5)), term(6)),
             RMul(Num(6), f[m]))
\* u[+x] + u[-x] + u[+y] + u[-y] + u[kup] + u[kdwn] - 6*u[n]
Stencil(f, m, per) ==
    LET nbs == NeighbourSeq(m, per)
    IN  RSub(RAdd(RAdd(RAdd(RAdd(RAdd(f[nbs[1]], f[nbs[2]]), f[nbs[3]]), f[nbs[4]]),
                       f[nbs[5]]), f[nbs[6]]),
             RMul(Num(6), f[m]))

Cube(x) == RMul(RMul(x, x), x)

\* line 976 without D2u: oneoverepsilon*(u - u*u*u/3.0 - v)
ReactU(x, y) == RMul(oneoverepsilon, RSub(RSub(x, RDiv(Cube(x), Num(3))), y))
\* line 977: epsilon*(u + beta - gam*v)
ReactV(x, y, bt) == RMul(epsilon, RSub(RAdd(x, bt), RMul(gam, y)))

\* uv_initialise for a cell whose phi is 0: cos(0) = 1, sin(0) = 0
UOfPhiZero_noOffset == RMul(Num(2), Num(1))
\* u[n] = 2*cos(phi[n]) - 0.4 (line 483)
UOfPhiZero == RSub(RMul(Num(2), Num(1)), Rat(4, 10))
\* v[n] = sin(phi[n]) - 0.4 (line 484)
VOfPhiZero == RSub(Num(0), Rat(4, 10))

Uniform(x) == [m \in 0 .. NCells - 1 |-> x]
ZeroField == Uniform(Zero)

\* loop L of the integrator has processed cell a.c: the next cell, the
\* next loop, or the return of the call
NumNext(a) ==
    IF a.c + 1 < NCells THEN [a EXCEPT !.c = a.c + 1]
    ELSE IF a.L < LastLoop(a.rk4) THEN [a EXCEPT !.c = 0, !.L = a.L + 1]
    ELSE [a EXCEPT !.c = 0, !.pc = "num_done"]

\* lines 939-953 for cell c
NumCopy ==
    /\ ar.pc = "num" /\ ar.rk4 /\ ar.L = 0
    /\ ar' = NumNext([ar EXCEPT !.uold[ar.c] = ar.u[ar.c],
                                !.vold[ar.c] = ar.v[ar.c],
                                !.kut[ar.c] = Zero, !.kvt[ar.c] = Zero])
    /\ UNCHANGED <<nb, rd, pc, sh, grid, acc, fk, crv, io>>

\* lines 959-979 for cell c: D2u is recomputed from the u of this stage
NumStage ==
    /\ ar.pc = "num" /\ IsStage(ar.rk4, ar.L)
    /\ LET n == ar.c
           D2u == RMul(oneoverhsq, Stencil(ar.u, n, ar.per))
       IN ar' = NumNext([ar EXCEPT
                    !.D2u[n] = D2u,
                    !.ku[n] = RAdd(ReactU(ar.u[n], ar.v[n]), D2u),
                    !.kv[n] = ReactV(ar.u[n], ar.v[n], ar.beta)])
    /\ UNCHANGED <<nb, rd, pc, sh, grid, acc, fk, crv, io>>

\* the arguments inc and coeff of the uv_add call after stage l
\* (lines 986, 992, 998)
AddInc(l) == IF l = 2 THEN Num(1) ELSE Rat(1, 2)
AddCoeff_ones(l) == Num(1)
AddCoeff(l) == IF l = 0 THEN Num(1) ELSE Num(2)

\* uv_add (lines 1037-1041) for cell c
NumAdd ==
    /\ ar.pc = "num" /\ ar.rk4 /\ ar.L \in {2, 4, 6}
    /\ LET n == ar.c
           l == (ar.L - 2) \div 2
       IN ar' = NumNext([ar EXCEPT
                    !.u[n] = RAdd(ar.uold[n], RMul(RMul(dtime, AddInc(l)), ar.ku[n])),
                    !.v[n] = RAdd(ar.vold[n], RMul(RMul(dtime, AddInc(l)), ar.kv[n])),
                    !.kut[n] = RAdd(ar.kut[n], RMul(AddCoeff(l), ar.ku[n])),
                    !.kvt[n] = RAdd(ar.kvt[n], RMul(AddCoeff(l), ar.kv[n]))])
    /\ UNCHANGED <<nb, rd, pc, sh, grid, acc, fk, crv, io>>

\* lines 1011-1013 for cell c
NumFinal ==
    /\ ar.pc = "num" /\ ar.rk4 /\ ar.L = 8
    /\ LET n == ar.c
       IN ar' = NumNext([ar EXCEPT
                    !.u[n] = RAdd(ar.uold[n],
                                  RMul(RMul(dtime, sixth), RAdd(ar.kut[n], ar.ku[n]))),
                    !.v[n] = RAdd(ar.vold[n],
                                  RMul(RMul(dtime, sixth), RAdd(ar.kvt[n], ar.kv[n])))])
    /\ UNCHANGED <<nb, rd, pc, sh, grid, acc, fk, crv, io>>

\* lines 1059-1070 for cell c
NumEulerLaplacian ==
    /\ ar.pc = "num" /\ ~ar.rk4 /\ ar.L = 0
    /\ ar' = NumNext([ar EXCEPT
                !.D2u[ar.c] = RDiv(Stencil(ar.u, ar.c, ar.per), RMul(h, h))])
    /\ UNCHANGED <<nb, rd, pc, sh, grid, acc, fk, crv, io>>

\* line 1084: v[n] + dtime*(epsilon*(u[n] + beta - gam*v[n])), where u[n]
\* is the value line 1083 has just stored (un), not the one it read (uo)
EulerV(uo, un, vo, bt) == RAdd(vo, RMul(dtime, ReactV(un, vo, bt)))

\* lines 1082-1084 for cell c
NumEulerUpdate ==
    /\ ar.pc = "num" /\ ~ar.rk4 /\ ar.L = 1
    /\ LET n == ar.c
           un == RAdd(ar.u[n],
                      RMul(dtime, RAdd(RDiv(RSub(RSub(ar.u[n],
                                                      RDiv(Cube(ar.u[n]), Num(3))),
                                                 ar.v[n]),
                                            epsilon),
                                       ar.D2u[n])))
       IN ar' = NumNext([ar EXCEPT
                    !.u[n] = un,
                    !.v[n] = EulerV(ar.u[n], un, ar.v[n], ar.beta)])
    /\ UNCHANGED <<nb, rd, pc, sh, grid, acc, fk, crv, io>>

(***************************************************************************)
(* uv_update on symbolic values.  The value of a cell is a linear form     *)
(* b*x + k[1]*K0 + k[2]*K1 + k[3]*K2 + k[4]*K3 over the value x the cell   *)
(* held at the call and the four stage derivatives Kl of the cell (of u    *)
(* for the arrays u, uold, ku, kut; of v for v, vold, kv, kvt).  What a    *)
(* stage derivative was evaluated on is recorded when it is computed.      *)
(***************************************************************************)
Form(b, k1, k2, k3, k4) == [b |-> b, k |-> << k1, k2, k3, k4 >>]
FZero == Form(Zero, Zero, Zero, Zero, Zero)
\* the value held at the call
FStart == Form(Num(1), Zero, Zero, Zero, Zero)
\* the derivative of stage l
FStage(l) == [b |-> Zero, k |-> [q \in 1 .. 4 |-> IF q = l + 1 THEN Num(1) ELSE Zero]]
\* a value left in an array by an earlier call
FStale == Form(Num(7), Num(7), Num(7), Num(7), Num(7))

FAdd(x, y) == [b |-> RAdd(x.b, y.b), k |-> [q \in 1 .. 4 |-> RAdd(x.k[q], y.k[q])]]
FScale(c, x) == [b |-> RMul(c, x.b), k |-> [q \in 1 .. 4 |-> RMul(c, x.k[q])]]

\* no derivative computed yet
NoOperands == [u |-> FStale, v |-> FStale, nb |-> << >>]

SymNext(a) ==
    IF a.c + 1 < NCells THEN [a EXCEPT !.c = a.c + 1]
    ELSE IF a.L < LastLoop(TRUE) THEN [a EXCEPT !.c = 0, !.L = a.L + 1]
    ELSE [a EXCEPT !.c = 0, !.pc = "sym_done"]

\* lines 939-953 for cell c
SymCopy ==
    /\ ar.pc = "sym" /\ ar.L = 0
    /\ ar' = SymNext([ar EXCEPT !.uold[ar.c] = ar.u[ar.c],
                                !.vold[ar.c] = ar.v[ar.c],
                                !.kut[ar.c] = FZero, !.kvt[ar.c] = FZero])
    /\ UNCHANGED <<nb, rd, pc, sh, grid, acc, fk, crv, io>>

\* lines 959-979 for cell c: ku[n] and kv[n] become the derivatives of
\* stage l, evaluated on the u[n], v[n] and the six neighbours of u the
\* arrays hold now
SymStage ==
    /\ ar.pc = "sym" /\ IsStage(TRUE, ar.L)
    /\ LET n == ar.c
           l == StageOf(ar.L)
           nbs == NeighbourSeq(n, ar.per)
       IN ar' = SymNext([ar EXCEPT
                    !.ku[n] = FStage(l),
                    !.kv[n] = FStage(l),
                    !.du[l][n] = [u |-> ar.u[n], v |-> ar.v[n],
                                  nb |-> [q \in 1 .. 6 |-> << nbs[q], ar.u[nbs[q]] >>]],
                    !.dv[l][n] = [u |-> ar.u[n], v |-> ar.v[n], nb |-> << >>]])
    /\ UNCHANGED <<nb, rd, pc, sh, grid, acc, fk, crv, io>>

\* uv_add (lines 1037-1041) for cell c
SymAdd ==
    /\ ar.pc = "sym" /\ ar.L \in {2, 4, 6}
    /\ LET n == ar.c
           l == (ar.L - 2) \div 2
       IN ar' = SymNext([ar EXCEPT
                    !.u[n] = FAdd(ar.uold[n], FScale(RMul(dtime, AddInc(l)), ar.ku[n])),
                    !.v[n] = FAdd(ar.vold[n], FScale(RMul(dtime, AddInc(l)), ar.kv[n])),
                    !.kut[n] = FAdd(ar.kut[n], FScale(AddCoeff(l), ar.ku[n])),
                    !.kvt[n] = FAdd(ar.kvt[n], FScale(AddCoeff(l), ar.kv[n]))])
    /\ UNCHANGED <<nb, rd, pc, sh, grid, acc, fk, crv, io>>

\* lines 1011-1013 for cell c
SymFinal ==
    /\ ar.pc = "sym" /\ ar.L = 8
    /\ LET n == ar.c
       IN ar' = SymNext([ar EXCEPT
                    !.u[n] = FAdd(ar.uold[n],
                                  FScale(RMul(dtime, sixth), FAdd(ar.kut[n], ar.ku[n]))),
                    !.v[n] = FAdd(ar.vold[n],
                                  FScale(RMul(dtime, sixth), FAdd(ar.kvt[n], ar.kv[n])))])
    /\ UNCHANGED <<nb, rd, pc, sh, grid, acc, fk, crv, io>>

(***************************************************************************)
(* The vertex averaging of find_knot_properties on point coordinates.  A   *)
(* point is a triple of exact rationals; the input curves are chosen so    *)
(* that every segment length met is rational and not zero.                 *)
(***************************************************************************)
Pt3(x, y, z) == << Num(x), Num(y), Num(z) >>

\* sqrt of a perfect square
ISqrt(n) == CHOOSE k \in 0 .. n : k * k = n
RSqrt(r) == << ISqrt(r[1]), ISqrt(r[2]) >>

\* knotcurve[incp(s,1,NP)] - knotcurve[s], by coordinate (points are held
\* in a sequence, knotcurve[s] at position s + 1)
Seg(pts, s) ==
    LET p == pts[s + 1]
        q == pts[incp(s, 1, Len(pts)) + 1]
    IN  << RSub(q[1], p[1]), RSub(q[2], p[2]), RSub(q[3], p[3]) >>

\* dx*dx + dy*dy + dz*dz
SumSq(d) == RAdd(RAdd(RMul(d[1], d[1]), RMul(d[2], d[2])), RMul(d[3], d[3]))

SpacingOf_open(totlength, NP) == RDiv(totlength, Num(NP - 1))
\* dl = totlength/NP (line 684)
SpacingOf(totlength, NP) == RDiv(totlength, Num(NP))

\* lines 679-682 for segment s
RegLength ==
    /\ crv.pc = "reg_len"
    /\ crv.s < Len(crv.pts)
    /\ crv' = [crv EXCEPT
                 !.totlength = RAdd(@, RSqrt(SumSq(Seg(crv.pts, crv.s)))),
                 !.s = crv.s + 1]
    /\ UNCHANGED <<nb, rd, pc, sh, grid, acc, fk, ar, io>>

\* line 684
RegSpacing ==
    /\ crv.pc = "reg_len"
    /\ crv.s = Len(crv.pts)
    /\ crv' = [crv EXCEPT !.dl = SpacingOf(crv.totlength, Len(crv.pts)),
                          !.pc = "reg_move", !.s = 0]
    /\ UNCHANGED <<nb, rd, pc, sh, grid, acc, fk, ar, io>>

\* lines 687-693 for segment s: the point after s is put at distance dl
\* from point s; after the last segment the next of the three passes
\* starts (lines 675-677)
RegMove ==
    /\ crv.pc = "reg_move"
    /\ crv.s < Len(crv.pts)
    /\ LET NP == Len(crv.pts)
           d == Seg(crv.pts, crv.s)
           norm == RSqrt(SumSq(d))
           p == crv.pts[crv.s + 1]
           q == << RAdd(p[1], RDiv(RMul(crv.dl, d[1]), norm)),
                   RAdd(p[2], RDiv(RMul(crv.dl, d[2]), norm)),
                   RAdd(p[3], RDiv(RMul(crv.dl, d[3]), norm)) >>
           moved == [crv EXCEPT !.pts[incp(crv.s, 1, NP) + 1] = q]
       IN crv' = IF crv.s + 1 < NP THEN [moved EXCEPT !.s = crv.s + 1]
                 ELSE IF crv.i < 2
                 THEN [moved EXCEPT !.i = crv.i + 1, !.s = 0, !.totlength = Zero,
                                    !.pc = "reg_len"]
                 ELSE [moved EXCEPT !.s = 0, !.pc = "reg_done"]
    /\ UNCHANGED <<nb, rd, pc, sh, grid, acc, fk, ar, io>>

\* the vertex averaging is applied to the curve it has produced
RegAgain ==
    /\ crv.pc = "reg_done"
    /\ crv.run = 1
    /\ crv' = [crv EXCEPT !.run = 2, !.pc = "reg_len", !.i = 0, !.s = 0,
                          !.totlength = Zero]
    /\ UNCHANGED <<nb, rd, pc, sh, grid, acc, fk, ar, io>>

(***************************************************************************)
(* The writhe integral of find_knot_properties.  The points of the curve   *)
(* are integer triples.  A writhe value is an exact real: in units of      *)
(* 1/(4*pi*ds) it is a sum of c/sqrt(f) over square-free integers f with   *)
(* rational c, held as the set of its pairs <<f, c>> with c # 0; nan marks *)
(* the result of a 0/0.                                                    *)
(***************************************************************************)
Sub3(a, b) == << a[1] - b[1], a[2] - b[2], a[3] - b[3] >>
Add3(a, b) == << a[1] + b[1], a[2] + b[2], a[3] + b[3] >>
Dot3(a, b) == a[1] * b[1] + a[2] * b[2] + a[3] * b[3]

\* ds*(dxds, dyds, dzds) of segment s (lines 895-897)
Tangent(pts, s) == Sub3(pts[incp(s, 1, Len(pts)) + 1], pts[s + 1])
\* 2*(xdiff, ydiff, zdiff) of the segments s and m (lines 912-914)
MidDiff(pts, s, m) ==
    Sub3(Add3(pts[incp(s, 1, Len(pts)) + 1], pts[s + 1]),
         Add3(pts[incp(m, 1, Len(pts)) + 1], pts[m + 1]))

Triple_mixed(d, a, b) ==
    d[1] * (a[2] * b[1] - a[3] * b[2]) + d[2] * (a[3] * b[1] - a[1] * b[3])
      + d[3] * (a[1] * b[2] - a[2] * b[1])
\* xdiff*(dyds*dzdm - dzds*dydm) + ydiff*(dzds*dxdm - dxds*dzdm)
\*   + zdiff*(dxds*dydm - dyds*dxdm)       (line 918)
Triple(d, a, b) ==
    d[1] * (a[2] * b[3] - a[3] * b[2]) + d[2] * (a[3] * b[1] - a[1] * b[3])
      + d[3] * (a[1] * b[2] - a[2] * b[1])

\* the largest k whose square divides n
SquarePart(n) ==
    CHOOSE k \in 1 .. n : n % (k * k) = 0 /\ \A j \in k + 1 .. n : n % (j * j) # 0

WZero == [nan |-> FALSE, t |-> {}]
Coeff(w, f) == IF \E p \in w.t : p[1] = f
               THEN (CHOOSE p \in w.t : p[1] = f)[2] ELSE Zero
\* operator + on writhe values
WSum(a, b) ==
    [nan |-> a.nan \/ b.nan,
     t |-> { p \in { << f, RAdd(Coeff(a, f), Coeff(b, f)) >> :
                       f \in { q[1] : q \in a.t \cup b.t } } : p[2] # Zero }]

\* the summand of line 918 for the segments s and m: with d = 2*diff,
\* N = d.(Ts x Tm) and |d|^2 = k*k*f it is 4*N/(k^3*f) / sqrt(f); 0/0 when
\* the two midpoints coincide
PairTerm(pts, s, m) ==
    LET d == MidDiff(pts, s, m)
        D2 == Dot3(d, d)
        N == Triple(d, Tangent(pts, s), Tangent(pts, m))
    IN  IF D2 = 0 THEN [nan |-> TRUE, t |-> {}]
        ELSE LET k == SquarePart(D2)
                 f == D2 \div (k * k)
                 c == Rat(4 * N, k * k * k * f)
             IN [nan |-> FALSE, t |-> IF c = Zero THEN {} ELSE { << f, c >> }]

\* lines 893-902: segment s starts with writhe 0
WrSegStart ==
    /\ crv.pc = "w_seg"
    /\ crv.s < Len(crv.pts)
    /\ crv' = [crv EXCEPT !.writhe[crv.s + 1] = WZero, !.m = 0, !.pc = "w_pair"]
    /\ UNCHANGED <<nb, rd, pc, sh, grid, acc, fk, ar, io>>

\* lines 908-920 for one m
WrPair ==
    /\ crv.pc = "w_pair"
    /\ crv.m < Len(crv.pts)
    /\ crv' = IF crv.s # crv.m
              THEN LET term == PairTerm(crv.pts, crv.s, crv.m)
                   IN [crv EXCEPT !.writhe[crv.s + 1] = WSum(@, term),
                                  !.term = term, !.m = crv.m + 1]
              ELSE [crv EXCEPT !.m = crv.m + 1]
    /\ UNCHANGED <<nb, rd, pc, sh, grid, acc, fk, ar, io>>

\* line 922: totwrithe += knotcurve[s].writhe*ds (totwrithe is held in
\* units of 1/(4*pi)), and the next s
WrSegEnd ==
    /\ crv.pc = "w_pair"
    /\ crv.m = Len(crv.pts)
    /\ crv' = [crv EXCEPT !.totwrithe = WSum(@, crv.writhe[crv.s + 1]),
                          !.s = crv.s + 1,
                          !.pc = IF crv.s + 1 < Len(crv.pts) THEN "w_seg" ELSE "w_done"]
    /\ UNCHANGED <<nb, rd, pc, sh, grid, acc, fk, ar, io>>

(***************************************************************************)
(* phi_calc.  The potential of a cell is a multiple k of pi/2, or a double *)
(* so large that subtracting 2*pi from it gives the same double again      *)
(* (big).  A triangle is given by its summand at each cell and by whether  *)
(* its centroid is the centre of cell 0.                                   *)
(***************************************************************************)
\* M_PI in units of pi/2
Pi == 2

Angle(k) == [k |-> k, big |-> FALSE]
Huge == [k |-> 0, big |-> TRUE]

\* a + n*pi/2 in doubles
AngleAdd(a, n) == IF a.big THEN a ELSE Angle(a.k + n)
\* a > n*pi/2 and a < n*pi/2
AngleAbove(a, n) == a.big \/ a.k > n
AngleBelow(a, n) == ~a.big /\ a.k < n

\* r of line 461 is zero: the centroid of tr is the centre of cell c
AtCentroid(tr, c) == tr.on /\ c = 0

\* lines 455-463 for triangle s of cell c (line 456 before the first): the
\* summand is added if r > 0
PhiTriangle ==
    /\ ar.pc = "phi_sum"
    /\ ar.s < Len(ar.surface)
    /\ LET tr == ar.surface[ar.s + 1]
           old == IF ar.s = 0 THEN Angle(0) ELSE ar.phi[ar.c]
           new == IF AtCentroid(tr, ar.c) THEN old
                  ELSE IF tr.huge THEN Huge
                  ELSE AngleAdd(old, tr.a - ar.c * tr.b)
       IN ar' = [ar EXCEPT !.phi[ar.c] = new, !.sum[ar.c] = new, !.s = ar.s + 1]
    /\ UNCHANGED <<nb, rd, pc, sh, grid, acc, fk, crv, io>>

\* line 465: one pass of while(phi[n]>M_PI) phi[n] -= 2*M_PI
PhiWrapDown ==
    /\ ar.pc = "phi_sum"
    /\ ar.s = Len(ar.surface)
    /\ AngleAbove(ar.phi[ar.c], Pi)
    /\ ar' = [ar EXCEPT !.phi[ar.c] = AngleAdd(@, 0 - 2 * Pi)]
    /\ UNCHANGED <<nb, rd, pc, sh, grid, acc, fk, crv, io>>

\* line 466: one pass of while(phi[n]<-M_PI) phi[n] += 2*M_PI
PhiWrapUp ==
    /\ ar.pc = "phi_sum"
    /\ ar.s = Len(ar.surface)
    /\ ~AngleAbove(ar.phi[ar.c], Pi)
    /\ AngleBelow(ar.phi[ar.c], 0 - Pi)
    /\ ar' = [ar EXCEPT !.phi[ar.c] = AngleAdd(@, 2 * Pi)]
    /\ UNCHANGED <<nb, rd, pc, sh, grid, acc, fk, crv, io>>

\* both while conditions are false: the next cell, or the end of phi_calc
PhiNextCell ==
    /\ ar.pc = "phi_sum"
    /\ ar.s = Len(ar.surface)
    /\ ~AngleAbove(ar.phi[ar.c], Pi)
    /\ ~AngleBelow(ar.phi[ar.c], 0 - Pi)
    /\ ar' = IF ar.c + 1 < NCells THEN [ar EXCEPT !.c = ar.c + 1, !.s = 0]
             ELSE [ar EXCEPT !.pc = "phi_done"]
    /\ UNCHANGED <<nb, rd, pc, sh, grid, acc, fk, crv, io>>

(***************************************************************************)
(* The frame of the twist integral, lines 845-890 of find_knot_properties, *)
(* for one curve point.  The point lies in the cell (idwn, jdwn, kdwn) at  *)
(* the offsets (xd, yd, zd) from its centre, given in halves of h.  A      *)
(* central difference 0.5*(a - b)/h is (a - b) tenths as in crossgrad_calc *)
(* and a trilinear coefficient is a number of eighths, so dxu, dyu and dzu *)
(* are integers in units of 1/80.                                          *)
(***************************************************************************)
\* lines 863-865: iinc, jinc, kinc of the m-th neighbour
TwInc(m) == << m % 2, (m \div 2) % 2, (m \div 4) % 2 >>

\* lines 867-870: the cell (i, j, k) of the m-th neighbour
TwCell(cell, m, per) ==
    << incw(cell[1], TwInc(m)[1], Nx), incw(cell[2], TwInc(m)[2], Ny),
       zinc(cell[3], TwInc(m)[3], per) >>

\* one factor of line 871, in halves: 1 - d for inc = 0 and d for inc = 1
TwFactor(inc, d) == IF inc = 0 THEN 2 - d ELSE d

\* line 871: prefactor, in eighths
Prefactor(m, d) ==
    TwFactor(TwInc(m)[1], d[1]) * TwFactor(TwInc(m)[2], d[2])
        * TwFactor(TwInc(m)[3], d[3])

\* lines 873-876 for the m-th neighbour: dxu and dyu are added to; dzu is
\* added to under the reflecting policy only (line 875 computes the
\* periodic term and discards it)
TwistNeighbour ==
    /\ crv.pc = "tw_sum"
    /\ crv.m < 8
    /\ LET c == TwCell(crv.cell, crv.m, crv.per)
           g == Gradient(crv.u, c[1], c[2], c[3], crv.per)
           pf == Prefactor(crv.m, crv.d)
       IN crv' = [crv EXCEPT
                    !.m = @ + 1,
                    !.du = << @[1] + pf * g[1], @[2] + pf * g[2],
                              IF crv.per THEN @[3] ELSE @[3] + pf * g[3] >>,
                    !.terms = << @[1] + 1, @[2] + 1,
                                 IF crv.per THEN @[3] ELSE @[3] + 1 >>]
    /\ UNCHANGED <<nb, rd, pc, sh, grid, acc, fk, ar, io>>

\* lines 879-889: grad u is projected on the plane normal to the tangent
\* (dx, dy, dz) and normalised.  a is the projection times the square of
\* the tangent's length, which has the direction of (ax, ay, az); the norm
\* of line 886 is 0 when the projection vanishes, and ax, ay, az are NaN
TwistFrame ==
    /\ crv.pc = "tw_sum"
    /\ crv.m = 8
    /\ LET t == crv.tan
           dot == crv.du[1] * t[1] + crv.du[2] * t[2] + crv.du[3] * t[3]
           tt == t[1] * t[1] + t[2] * t[2] + t[3] * t[3]
           a == << crv.du[1] * tt - dot * t[1], crv.du[2] * tt - dot * t[2],
                   crv.du[3] * tt - dot * t[3] >>
       IN crv' = [crv EXCEPT !.pc = "tw_done", !.a = a,
                             !.anan = (a = << 0, 0, 0 >>)]
    /\ UNCHANGED <<nb, rd, pc, sh, grid, acc, fk, ar, io>>

(***************************************************************************)
(* Specifications.                                                         *)
(***************************************************************************)
\* no integrator arithmetic, no curve computation and no file written
ArIdle == [pc |-> "idle"]
CrvIdle == [pc |-> "idle"]
IoIdle == [pc |-> "idle"]
AuxIdle == ar = ArIdle /\ crv = CrvIdle /\ io = IoIdle

\* the time loop of main: the state when the team of threads starts
Init ==
    /\ nb = NbIdle
    /\ rd = RdIdle
    /\ fk = FkIdle
    /\ pc = [t \in Threads |-> PcStart]
    /\ \E rk4 \in BOOLEAN, dt \in {1, TimeDen}, T \in 0 .. MaxT,
          skip \in {1, TimeDen} :
         sh = [ShIdle EXCEPT !.rk4 = rk4, !.dt = dt, !.T = T, !.skip = skip]
    /\ grid = GridStart
    /\ acc = [t \in Threads |-> NoAcc]
    /\ AuxIdle

Next ==
    \/ \E t \in Threads : EvalCond(t)
    \/ \E t \in Threads : EncounterSingle(t)
    \/ \E t \in Threads : SingleSample(t)
    \/ \E t \in Threads : SinglePrint(t)
    \/ \E t \in Threads : SingleInc(t)
    \/ \E t \in Threads : ProcessRow(t)
    \/ \E t \in Threads : LeaveLoop(t)
    \/ BarrierRelease

Spec == Init /\ [][Next]_vars

ParIdle ==
    /\ pc = [t \in Threads |-> PcIdle]
    /\ sh = ShIdle
    /\ grid = GridStart
    /\ acc = [t \in Threads |-> NoAcc]

\* the neighbour lookups and stencils, applied to every input
InitIdx == nb = NbIdle /\ rd = RdIdle /\ fk = FkIdle /\ ParIdle /\ AuxIdle

NextIdx ==
    \/ CallIncw
    \/ CallIncp
    \/ CallIncpUpDown
    \/ CallUpdateReads
    \/ CallEulerReads
    \/ CallCrossgradReads

SpecIdx == InitIdx /\ [][NextIdx]_vars

\* crossgrad_calc called on every pair of input fields, under either z
\* policy, with knotexists left by the sample before (line 213: the curve
\* of that sample is cleared only if knotexists)
InitGrad ==
    /\ nb = NbIdle /\ rd = RdIdle /\ fk = FkIdle /\ ParIdle
    /\ crv = CrvIdle /\ io = IoIdle
    /\ \E u \in InputFields, v \in InputFieldsV, per \in BOOLEAN, ke \in BOOLEAN :
         ar = [pc |-> "cg_start", u |-> u, v |-> v, per |-> per, c |-> 0,
               ucv |-> [m \in 0 .. NCells - 1 |-> NoPoint],
               ucvmax |-> NoMax, knotexists |-> ke,
               knotcurve |-> IF ke THEN <<>> ELSE <<NoPoint>>]

NextGrad ==
    \/ CgStart
    \/ CgCell
    \/ CgFinish

SpecGrad == InitGrad /\ [][NextGrad]_vars

\* print_uv called on every pair of input fields, then the restart
InitIO ==
    /\ nb = NbIdle /\ rd = RdIdle /\ fk = FkIdle /\ ParIdle
    /\ ar = ArIdle /\ crv = CrvIdle
    /\ \E u \in IoFields, v \in IoFields :
         io = [pc |-> "wr_hdr", u |-> u, v |-> v, mag |-> NoField,
               lines |-> <<>>, c |-> 0]

NextIO ==
    \/ PrintHeader
    \/ PrintU
    \/ PrintVText
    \/ PrintV
    \/ PrintUcvText
    \/ PrintUcv
    \/ PrintClose
    \/ Restart
    \/ MainDispatch
    \/ UvHeader
    \/ UvReadU
    \/ UvSeparator
    \/ UvReadV
    \/ MainAfterUvRead
    \/ MainUvInitialise

SpecIO == InitIO /\ [][NextIO]_vars

\* the fields an integrator call is started on, with the beta of the run:
\* the field uv_initialise makes of phi = 0, uniform and non-uniform fields
\* with the beta of the source, and uniform fields at which both reaction
\* terms vanish (with beta = 0.7 and gam = 0.5 that point is irrational, so
\* it is taken for other values of beta)
Ramp == [m \in 0 .. NCells - 1 |-> Num(m)]
Spike == [m \in 0 .. NCells - 1 |-> IF m = 0 THEN Num(3) ELSE Zero]
NumInputs ==
    { [u |-> Uniform(UOfPhiZero), v |-> Uniform(VOfPhiZero), beta |-> beta,
       phi0 |-> TRUE] }
    \cup { [u |-> f, v |-> g, beta |-> beta, phi0 |-> FALSE] :
             f \in {ZeroField, Ramp, Spike}, g \in {ZeroField, Ramp} }
    \cup { [u |-> Uniform(Num(x)), v |-> Uniform(Num(0 - 2 * x)),
            beta |-> Num(0 - 2 * x), phi0 |-> FALSE] : x \in {0, 3, 0 - 3} }

\* both reaction terms vanish at every cell of the input
AtFixedPoint(inp) ==
    \A m \in 0 .. NCells - 1 :
        /\ ReactU(inp.u[m], inp.v[m]) = Zero
        /\ ReactV(inp.u[m], inp.v[m], inp.beta) = Zero

\* one call of uv_update or uv_update_euler on every input under either z
\* policy (uv_update on the fixed-point inputs only: elsewhere the exact
\* values of four stages leave the range of the integers)
InitNum ==
    /\ nb = NbIdle /\ rd = RdIdle /\ fk = FkIdle /\ ParIdle
    /\ crv = CrvIdle /\ io = IoIdle
    /\ \E inp \in NumInputs, rk4 \in BOOLEAN, per \in BOOLEAN :
         /\ rk4 => AtFixedPoint(inp)
         /\ ar = [pc |-> "num", rk4 |-> rk4, per |-> per, beta |-> inp.beta,
                  phi0 |-> inp.phi0, L |-> 0, c |-> 0,
                  u |-> inp.u, v |-> inp.v, u0 |-> inp.u, v0 |-> inp.v,
                  uold |-> ZeroField, vold |-> ZeroField, ku |-> ZeroField,
                  kv |-> ZeroField, kut |-> ZeroField, kvt |-> ZeroField,
                  D2u |-> ZeroField]

NextNum ==
    \/ NumCopy
    \/ NumStage
    \/ NumAdd
    \/ NumFinal
    \/ NumEulerLaplacian
    \/ NumEulerUpdate

SpecNum == InitNum /\ [][NextNum]_vars

\* one call of uv_update under either z policy; the work arrays are fresh
\* or hold what an earlier call left in them
InitSym ==
    /\ nb = NbIdle /\ rd = RdIdle /\ fk = FkIdle /\ ParIdle
    /\ crv = CrvIdle /\ io = IoIdle
    /\ \E per \in BOOLEAN, work \in {FZero, FStale} :
         LET fresh == [m \in 0 .. NCells - 1 |-> work]
         IN ar = [pc |-> "sym", per |-> per, work |-> work, L |-> 0, c |-> 0,
                  u |-> [m \in 0 .. NCells - 1 |-> FStart],
                  v |-> [m \in 0 .. NCells - 1 |-> FStart],
                  uold |-> fresh, vold |-> fresh, ku |-> fresh, kv |-> fresh,
                  kut |-> fresh, kvt |-> fresh,
                  du |-> [l \in 0 .. 3 |-> [m \in 0 .. NCells - 1 |-> NoOperands]],
                  dv |-> [l \in 0 .. 3 |-> [m \in 0 .. NCells - 1 |-> NoOperands]]]

NextSym ==
    \/ SymCopy
    \/ SymStage
    \/ SymAdd
    \/ SymFinal

SpecSym == InitSym /\ [][NextSym]_vars

\* closed curves the vertex averaging is applied to: curves of equal
\* spacing (a unit square, a rectangle, a rhombus of side 5, a square of
\* side 2 in the yz plane, a hexagon on the edges of a cube, a segment
\* walked out and back) and curves on a line with unequal spacing
RegCurves ==
    { << Pt3(0, 0, 0), Pt3(1, 0, 0), Pt3(1, 1, 0), Pt3(0, 1, 0) >>,
      << Pt3(0, 0, 0), Pt3(1, 0, 0), Pt3(2, 0, 0), Pt3(2, 1, 0), Pt3(1, 1, 0),
         Pt3(0, 1, 0) >>,
      << Pt3(0, 0, 0), Pt3(3, 4, 0), Pt3(6, 0, 0), Pt3(3, 0 - 4, 0) >>,
      << Pt3(0, 0, 0), Pt3(0, 2, 0), Pt3(0, 2, 2), Pt3(0, 0, 2) >>,
      << Pt3(0, 0, 0), Pt3(1, 0, 0), Pt3(1, 1, 0), Pt3(1, 1, 1), Pt3(0, 1, 1),
         Pt3(0, 0, 1) >>,
      << Pt3(0, 0, 0), Pt3(1, 0, 0), Pt3(2, 0, 0), Pt3(1, 0, 0) >>,
      << Pt3(0, 0, 0), Pt3(1, 0, 0), Pt3(3, 0, 0), Pt3(1, 0, 0) >>,
      << Pt3(0, 0, 0), Pt3(0, 2, 0), Pt3(0, 3, 0), Pt3(0, 1, 0) >> }

InitReg ==
    /\ nb = NbIdle /\ rd = RdIdle /\ fk = FkIdle /\ ParIdle
    /\ ar = ArIdle /\ io = IoIdle
    /\ \E c \in RegCurves :
         crv = [pc |-> "reg_len", run |-> 1, i |-> 0, s |-> 0, pts |-> c,
                orig |-> c, totlength |-> Zero, dl |-> Zero]

NextReg ==
    \/ RegLength
    \/ RegSpacing
    \/ RegMove
    \/ RegAgain

SpecReg == InitReg /\ [][NextReg]_vars

\* closed curves the writhe is computed of: simple polylines in the planes
\* z = 0, z = 1, x = 0 and y = 2, a simple polyline in the plane x = z, a
\* planar curve walked out and back (its segments share midpoints), and
\* curves that do not lie in a plane
WrCurves ==
    { << <<0, 0, 0>>, <<1, 0, 0>>, <<1, 1, 0>>, <<0, 1, 0>> >>,
      << <<0, 0, 1>>, <<2, 0, 1>>, <<3, 2, 1>>, <<1, 3, 1>>, <<0 - 1, 1, 1>> >>,
      << <<0, 0, 0>>, <<0, 3, 0>>, <<0, 3, 1>>, <<0, 1, 1>>, <<0, 1, 2>>, <<0, 0, 2>> >>,
      << <<0, 2, 0>>, <<2, 2, 0>>, <<1, 2, 3>> >>,
      << <<0, 0, 0>>, <<1, 2, 1>>, <<0, 4, 0>>, <<0 - 1, 2, 0 - 1>> >>,
      << <<0, 0, 0>>, <<1, 0, 0>>, <<2, 0, 0>>, <<1, 0, 0>> >>,
      << <<0, 0, 0>>, <<1, 0, 0>>, <<1, 1, 0>>, <<1, 1, 1>>, <<0, 1, 1>>, <<0, 0, 1>> >>,
      << <<0, 0, 0>>, <<2, 0, 1>>, <<2, 2, 0>>, <<0, 2, 1>>, <<1, 1, 3>> >> }

InitWrithe ==
    /\ nb = NbIdle /\ rd = RdIdle /\ fk = FkIdle /\ ParIdle
    /\ ar = ArIdle /\ io = IoIdle
    /\ \E c \in WrCurves :
         crv = [pc |-> "w_seg", pts |-> c, s |-> 0, m |-> 0,
                writhe |-> [q \in 1 .. Len(c) |-> WZero],
                totwrithe |-> WZero, term |-> WZero]

NextWrithe ==
    \/ WrSegStart
    \/ WrPair
    \/ WrSegEnd

SpecWrithe == InitWrithe /\ [][NextWrithe]_vars

\* phi_calc on surfaces of one or two triangles; the first triangle may
\* have its centroid on the centre of cell 0 or a summand too large to wrap
Triangles ==
    { [a |-> a, b |-> b, on |-> on, huge |-> hg] :
        a \in {0 - 7, 0 - 2, 1, 6}, b \in {0, 1}, on \in BOOLEAN, hg \in BOOLEAN }
Surfaces ==
    { << t >> : t \in Triangles }
    \cup { << t, [a |-> a, b |-> 0 - 1, on |-> FALSE, huge |-> FALSE] >> :
             t \in { x \in Triangles : x.b = 1 /\ ~x.huge }, a \in {0 - 6, 3} }

InitPhi ==
    /\ nb = NbIdle /\ rd = RdIdle /\ fk = FkIdle /\ ParIdle
    /\ crv = CrvIdle /\ io = IoIdle
    /\ \E sf \in Surfaces :
         ar = [pc |-> "phi_sum", surface |-> sf, c |-> 0, s |-> 0,
               phi |-> [m \in 0 .. NCells - 1 |-> Angle(0)],
               sum |-> [m \in 0 .. NCells - 1 |-> Angle(0)]]

NextPhi ==
    \/ PhiTriangle
    \/ PhiWrapDown
    \/ PhiWrapUp
    \/ PhiNextCell

\* phi_calc runs to its end unless a loop does not end
SpecPhi == InitPhi /\ [][NextPhi]_vars /\ WF_vars(NextPhi)

\* the frame computed for one curve point in every cell of the grid, at
\* every offset of 0 or h/2 from the cell centre, on every input field and
\* under either z policy
TwistTangents == { << 2, 0, 0 >>, << 0, 0, 2 >>, << 1, 0, 1 >> }

InitTwist ==
    /\ nb = NbIdle /\ rd = RdIdle /\ fk = FkIdle /\ ParIdle
    /\ ar = ArIdle /\ io = IoIdle
    /\ \E u \in InputFields, per \in BOOLEAN, cell \in Cells,
          d \in {0, 1} \X {0, 1} \X {0, 1}, t \in TwistTangents :
         crv = [pc |-> "tw_sum", u |-> u, per |-> per, cell |-> cell,
                d |-> d, tan |-> t, m |-> 0, du |-> << 0, 0, 0 >>,
                terms |-> << 0, 0, 0 >>, a |-> << 0, 0, 0 >>,
                anan |-> FALSE]

NextTwist ==
    \/ TwistNeighbour
    \/ TwistFrame

SpecTwist == InitTwist /\ [][NextTwist]_vars

\* the start of main, for every initialisation option and input file
InitRead ==
    /\ nb = NbIdle
    /\ fk = FkIdle
    /\ ParIdle
    /\ AuxIdle
    /\ \E o \in {FROM_PHI_FILE, FROM_SURFACE_FILE, FROM_UV_FILE, FROM_FUNCTION} :
       \E f \in Files :
         rd = [RdIdle EXCEPT !.pc = "start", !.option = o, !.file = f]

NextRead ==
    \/ MainDispatch
    \/ PhiHeader
    \/ PhiValue
    \/ MainAfterPhiRead
    \/ UvHeader
    \/ UvReadU
    \/ UvSeparator
    \/ UvReadV
    \/ MainAfterUvRead
    \/ MainUvInitialise

SpecRead == InitRead /\ [][NextRead]_vars

\* find_knot_properties called on a seed
InitTrack ==
    /\ nb = NbIdle
    /\ rd = RdIdle
    /\ ParIdle
    /\ AuxIdle
    /\ \E p \in Seeds :
         fk = [FkIdle EXCEPT !.pc = "loop", !.p0 = p, !.cur = p, !.t = StartTime]

NextTrack ==
    \/ TrackBreak
    \/ TrackAdvance
    \/ TrackTail

SpecTrack == InitTrack /\ [][NextTrack]_vars

\* find_knot_properties runs on its own thread of control inside the single
\* block: a step that can be taken is taken
SpecTrackFair == InitTrack /\ [][NextTrack]_vars /\ WF_vars(NextTrack)

(***************************************************************************)
(* Properties.                                                             *)
(***************************************************************************)
InSingle(p) == p.at \in {"s_sample", "s_print", "s_inc"}
IntegratorSlots == AllSlots(IntegratorArrays)
OwnSlots(t) == { <<a, m>> : a \in IntegratorArrays,
                            m \in UNION { RowCells(i) : i \in MyRows(t) } }

\* C1: while a thread is inside the single block (crossgrad_calc, print_uv,
\* the counters), every other thread is outside the integrator, on its way
\* to or waiting at a barrier, none of them has written u or v since the
\* last barrier, and the u and v that crossgrad_calc and print_uv read are
\* the complete field of one time step.
C1_SingleSeesWholeGrid ==
    \A t \in Threads :
        InSingle(pc[t]) =>
            /\ \A o \in Threads \ {t} :
                 /\ pc[o].at \in {"cond", "single", "s_bar", "end"}
                 /\ acc[o].w \cap AllSlots({"u", "v"}) = {}
            /\ sh.obs \subseteq {Tag(pc[t].it, 0)}

\* C1 witness: after an integrator step, a thread has run crossgrad_calc in
\* the single block while another thread waits at the block's barrier.
C1_Witness ==
    \E t, o \in Threads :
        /\ pc[t].at = "s_print" /\ sh.sampled /\ pc[t].it >= 1
        /\ pc[o].at = "s_bar"

\* C2: in every work-sharing loop of uv_update, uv_add and uv_update_euler a
\* thread writes only slots of the rows of its own block; no slot written by
\* a thread since the last barrier is read or written by another thread
\* since that barrier; every value computed has operands of the stage it
\* belongs to, and a thread that returns from the integrator finds the
\* complete field of the next step, whatever the interleaving.
C2_LoopsRaceFree ==
    /\ \A t \in Threads : (acc[t].w \cap IntegratorSlots) \subseteq OwnSlots(t)
    /\ \A t1, t2 \in Threads :
         t1 # t2 => (acc[t1].w \cap IntegratorSlots) \cap (acc[t2].r \cup acc[t2].w) = {}
    /\ \A a \in IntegratorArrays : \A m \in 0 .. NCells - 1 : grid[a][m] # Bad
    /\ \A t \in Threads :
         (pc[t].at = "cond" /\ pc[t].it >= 1) =>
             \A m \in 0 .. NCells - 1 :
                 grid.u[m] = Tag(pc[t].it, 0) /\ grid.v[m] = Tag(pc[t].it, 0)

\* C2 witness: two threads have both written u in the same uv_add loop of an
\* RK4 step, after the neighbour reads of the derivative loop before it.
C2_Witness ==
    \E t1, t2 \in Threads :
        /\ t1 # t2 /\ sh.rk4
        /\ pc[t1].at = "work" /\ pc[t1].L = 2 /\ pc[t2].at = "work" /\ pc[t2].L = 2
        /\ acc[t1].w \cap AllSlots({"u"}) # {}
        /\ acc[t2].w \cap AllSlots({"u"}) # {}

\* C3: a thread that has left the time loop has performed
\* floor(TTime/dtime)+1 integrator steps.
C3_StepsBeforeExit ==
    \A t \in Threads :
        pc[t].at \in {"end", "done"} => pc[t].it = (sh.T \div sh.dt) + 1

\* C4: when crossgrad_calc has returned in a sample, knotcurve holds exactly
\* one point, the seed of that sample.
C4_CurveRebuilt ==
    \A t \in Threads :
        (pc[t].at = "s_print" /\ sh.sampled) =>
            /\ Len(sh.knotcurve) = 1
            /\ sh.knotcurve[1].seed = sh.q - 1

ReaderFailed ==
    \/ rd.ret = 1
    \/ /\ rd.option \notin {FROM_PHI_FILE, FROM_UV_FILE}
       /\ rd.pc # "start"
       /\ rd.area = 0

\* C5: once the input reader has reported failure, main neither computes u
\* and v nor reaches the time loop, and the code it returns is not 0.
C5_ReaderFailureAborts ==
    ReaderFailed =>
        /\ rd.pc \in {"phi_ret", "uv_ret", "exit"}
        /\ rd.uvfrom = "none"
        /\ (rd.pc = "exit" => rd.mainret # 0)

\* C6: uvfile_read returns 0 only for a file that holds every line it
\* needs, and 1 for every file that is missing or shorter.
C6_UvReadComplete ==
    (rd.option = FROM_UV_FILE /\ rd.ret # -1) =>
        (rd.ret = 0 <=> (rd.file.present /\ rd.file.n >= UvLines))

\* C7: when tracking stops because the point left the grid or the ceiling
\* was reached, no row is appended to writhe.txt for that time.
C7_FailedTrackingSkipsRow ==
    (fk.pc = "done" /\ fk.why \in {"out", "ceiling"}) => fk.rows = <<>>

\* C8: writhe.txt starts with the header row and holds one data row for every
\* sample taken so far at which a filament exists and the time is at least 10.
C8_RowPerTracedSample ==
    /\ sh.writhe[1] = "header"
    /\ Len(sh.writhe) - 1 =
         Cardinality({ i \in DOMAIN sh.samples : sh.samples[i].traced })

\* C9: under the periodic policy a step +1 followed by a step -1 returns
\* the starting index, for every extent N >= 1 and every i in [0, N).
C9_IncpUpDown == nb.op = "updown" => nb.res = nb.i

\* C9 witness: the round trip from the last index, whose first step wraps to 0.
C9_Witness ==
    nb.op = "updown" /\ nb.N >= 2 /\ nb.i = nb.N - 1 /\ nb.res = nb.N - 1

\* C10: both neighbour lookups return an index in [0, extent-1], and every
\* flat index used by uv_update, uv_update_euler and crossgrad_calc for a
\* cell of the grid lies in [0, Nx*Ny*Nz).
C10_IndicesInRange ==
    /\ nb.op \in {"incw", "incp"} => nb.res \in 0 .. nb.N - 1
    /\ nb.op \in {"update", "euler", "crossgrad"} => nb.reads \subseteq 0 .. NCells - 1

\* C10 witness: the stencil of the last cell of the grid, whose upper
\* neighbours are clamped in x and y and wrapped in z.
C10_Witness ==
    /\ nb.op = "update" /\ nb.per
    /\ nb.cell = <<Nx - 1, Ny - 1, Nz - 1>>
    /\ pt(Nx - 1, Ny - 1, 0) \in nb.reads

\* C16: all threads run the same iterations of the time loop: when a thread
\* has left the loop, every other thread has returned from the same number
\* of integrator calls and is evaluating the loop condition or has left the
\* loop too; none is inside the single block, at its barrier or in a
\* work-sharing loop of an iteration the leaving thread does not run.
C16_SameIterations ==
    \A t, o \in Threads :
        pc[t].at \in {"end", "done"} =>
            /\ pc[o].at \in {"cond", "end", "done"}
            /\ pc[o].it = pc[t].it

\* C20: the tracking loop ends: closure is declared only for a point index
\* above MinPoints whose distance to point 0 is below the tolerance, and the
\* loop does not go on past such a point; the loop ends at the latest when
\* the index exceeds the ceiling, so no point with an index above
\* PointCeiling + 1 is added; and the function returns.
C20_TrackingTerminates ==
    /\ [](/\ fk.why = "closed" =>
               /\ fk.s - 1 > MinPoints
               /\ Dist2(fk.p0, fk.cur) < TolSteps * TolSteps
          /\ (fk.pc = "loop" /\ ~fk.nan /\ fk.s - 1 > MinPoints) =>
               Dist2(fk.p0, fk.cur) >= TolSteps * TolSteps
          /\ fk.why = "ceiling" => fk.s - 1 = PointCeiling + 1
          /\ fk.s - 1 <= PointCeiling + 1
          /\ fk.pc = "loop" => fk.s - 1 <= PointCeiling)
    /\ <>(fk.pc = "done")

\* C20 witness: a curve that stayed in the grid and was closed by proximity
\* at the first point index above MinPoints.
C20_Witness ==
    /\ fk.pc = "done" /\ fk.why = "closed"
    /\ fk.s - 1 = MinPoints + 1
    /\ Dist2(fk.p0, fk.cur) < TolSteps * TolSteps

\* the square of the cross-gradient magnitude at flat index m for the fields
\* crossgrad_calc was called on
FieldMagSq(m) ==
    MagSq(Cross(Gradient(ar.u, CellOf(m)[1], CellOf(m)[2], CellOf(m)[3], ar.per),
                Gradient(ar.v, CellOf(m)[1], CellOf(m)[2], CellOf(m)[3], ar.per)))

\* C19: after crossgrad_calc, knotcurve[0] is the centre of the first cell in
\* scan order whose cross-gradient magnitude is the maximum over all cells
\* (cell (0,0,0) for a field that is zero everywhere), and knotexists is
\* true exactly when that maximum is at least the threshold 0.1.
C19_SeedIsFirstMaximum ==
    ar.pc = "cg_done" =>
        \E m \in 0 .. NCells - 1 :
            /\ \A o \in 0 .. NCells - 1 : FieldMagSq(o) <= FieldMagSq(m)
            /\ \A o \in 0 .. m - 1 : FieldMagSq(o) < FieldMagSq(m)
            /\ ar.knotcurve[1] = CellCentre(CellOf(m)[1], CellOf(m)[2], CellOf(m)[3])
            /\ ar.knotexists <=> (FieldMagSq(m) >= KnotThreshold * KnotThreshold)

\* C19 witness: the maximum is attained at two cells, the first of which is
\* not cell (0,0,0) and is the seed, and it is above the threshold while
\* knotexists was false before the call.
C19_Witness ==
    /\ ar.pc = "cg_done" /\ ar.knotexists
    /\ \E m, o \in 1 .. NCells - 1 :
         /\ m < o /\ FieldMagSq(m) = FieldMagSq(o)
         /\ \A q \in 0 .. NCells - 1 : FieldMagSq(q) <= FieldMagSq(m)
         /\ \A q \in 0 .. m - 1 : FieldMagSq(q) < FieldMagSq(m)
         /\ ar.knotcurve[1] = CellCentre(CellOf(m)[1], CellOf(m)[2], CellOf(m)[3])

\* C15: when uvfile_read has read the file print_uv wrote for the fields u
\* and v, the arrays it filled hold at every cell the value print_uv was
\* given for that cell.
C15_RestartRoundTrip ==
    (io.pc = "restarted" /\ rd.ret = 0) =>
        \A m \in 0 .. NCells - 1 : rd.u[m] = io.u[m] /\ rd.v[m] = io.v[m]

\* C15 as amended: the arrays uvfile_read filled hold at every cell the
\* number that the text print_uv wrote for that cell denotes: the value
\* given for the cell rounded to Precision significant digits (the reader
\* skips the lines the writer emits around the blocks and both visit the
\* cells in the same order).
C15_RoundTripToPrecision ==
    (io.pc = "restarted" /\ rd.ret = 0) =>
        \A m \in 0 .. NCells - 1 :
            rd.u[m] = Format(io.u[m]) /\ rd.v[m] = Format(io.v[m])

\* C15 witness: the file has been read back completely, and a cell whose
\* value has more than Precision significant digits came back rounded.
C15_Witness ==
    /\ io.pc = "restarted" /\ rd.ret = 0
    /\ \E m \in 1 .. NCells - 1 :
         /\ io.u[m] # Format(io.u[m])
         /\ rd.u[m] = Format(io.u[m])
         /\ rd.u[m] # rd.u[0]

(***************************************************************************)
(* The integrator on field values.                                         *)
(***************************************************************************)
\* cell m has been advanced by the Euler step
EulerAdvanced(m) ==
    /\ ar.pc \in {"num", "num_done"}
    /\ ~ar.rk4
    /\ ar.pc = "num_done" \/ (ar.L = 1 /\ m < ar.c)

\* the call was made on a uniform field at which both reaction terms vanish
StartedAtFixedPoint ==
    /\ ar.pc \in {"num", "num_done"}
    /\ AtFixedPoint([u |-> ar.u0, v |-> ar.v0, beta |-> ar.beta])
    /\ \A m \in 0 .. NCells - 1 : ar.u0[m] = ar.u0[0] /\ ar.v0[m] = ar.v0[0]

\* C18: a cell advanced by uv_update_euler holds
\* u + dtime*((u - u^3/3 - v)/epsilon + Laplacian(u)) and
\* v + dtime*epsilon*(u + beta - gam*v), every u and v on the right-hand
\* sides being the value held before the call.
C18_EulerFromStartOfStep ==
    \A m \in 0 .. NCells - 1 :
        EulerAdvanced(m) =>
            LET u0 == ar.u0[m]
                v0 == ar.v0[m]
                lap == RDiv(Stencil(ar.u0, m, ar.per), RMul(h, h))
            IN  /\ ar.u[m] = RAdd(u0, RMul(dtime,
                                   RAdd(RDiv(RSub(RSub(u0, RDiv(Cube(u0), Num(3))), v0),
                                             epsilon), lap)))
                /\ ar.v[m] = RAdd(v0, RMul(dtime,
                                   RMul(epsilon, RSub(RAdd(u0, ar.beta), RMul(gam, v0)))))

C17_StageState(l) ==
    IF l = 0 THEN FStart
    ELSE FAdd(FStart, FScale(RMul(IF l = 3 THEN Num(1) ELSE Rat(1, 2), Rat(2, 100)),
                             FStage(l - 1)))

\* C17: after uv_update every cell holds uold + dtime*(k0+2*k1+2*k2+k3)/6
\* in u and in v, where each k was evaluated on the intermediate state
\* built from the start-of-step value, and its Laplacian on the six
\* neighbours' values of that same intermediate state.
C17_RungeKuttaStep ==
    ar.pc = "sym_done" =>
        \A m \in 0 .. NCells - 1 :
            /\ ar.u[m] = Form(Num(1), Rat(1, 300), Rat(2, 300), Rat(2, 300), Rat(1, 300))
            /\ ar.v[m] = Form(Num(1), Rat(1, 300), Rat(2, 300), Rat(2, 300), Rat(1, 300))
            /\ \A l \in 0 .. 3 :
                  /\ ar.du[l][m].u = C17_StageState(l)
                  /\ ar.du[l][m].v = C17_StageState(l)
                  /\ ar.dv[l][m].u = C17_StageState(l)
                  /\ ar.dv[l][m].v = C17_StageState(l)
                  /\ ar.du[l][m].nb =
                        [q \in 1 .. 6 |-> << NeighbourSeq(m, ar.per)[q], C17_StageState(l) >>]

C17_Witness ==
    /\ ar.pc = "sym_done" /\ ar.per /\ ar.work = FStale
    /\ ar.u[NCells - 1].k[2] = Rat(1, 150)
    /\ ar.du[3][0].nb[1][2] = Form(Num(1), Zero, Zero, Rat(1, 50), Zero)

(***************************************************************************)
(* The curve computations.                                                 *)
(***************************************************************************)
\* the NP cyclic consecutive spacings of the curve are equal and not zero
UniformSpacing(pts) ==
    /\ SumSq(Seg(pts, 0)) # Zero
    /\ \A s \in 0 .. Len(pts) - 1 : SumSq(Seg(pts, s)) = SumSq(Seg(pts, 0))

InCoordinatePlane(pts) ==
    \E a \in 1 .. 3 : \A q \in 1 .. Len(pts) : pts[q][a] = pts[1][a]

\* the midpoints of distinct segments are distinct
MidpointsDistinct(pts) ==
    \A s, m \in 0 .. Len(pts) - 1 :
        s # m => MidDiff(pts, s, m) # << 0, 0, 0 >>

\* C13: for a closed polyline in one coordinate plane whose segments have
\* distinct midpoints (every polyline without self-crossings), the summand
\* of every ordered pair of distinct segments is zero, and so are the
\* writhe of every segment and the total writhe.
C13_PlanarWritheIsZero ==
    (crv.pc \in {"w_seg", "w_pair", "w_done"}
       /\ InCoordinatePlane(crv.pts) /\ MidpointsDistinct(crv.pts)) =>
        /\ crv.term = WZero
        /\ \A q \in 1 .. Len(crv.pts) : crv.writhe[q] = WZero
        /\ crv.totwrithe = WZero

C13_Witness ==
    /\ crv.pc = "w_done"
    /\ Len(crv.pts) = 6
    /\ InCoordinatePlane(crv.pts) /\ MidpointsDistinct(crv.pts)
    /\ crv.totwrithe = WZero

(***************************************************************************)
(* The output of main's time loop.                                         *)
(***************************************************************************)
\* C22: every print_uv of the time loop writes the cross-gradient arrays
\* crossgrad_calc has filled in the same loop iteration.
C22_PrintsFreshCrossGradient ==
    \A r \in 1 .. Len(sh.printed) : sh.printed[r].ucvIt = sh.printed[r].it

(***************************************************************************)
(* The filament tracker.                                                   *)
(***************************************************************************)
\* C24: when closure by proximity is declared, some earlier point of the
\* curve was at least lambda/(2*pi) away from point 0.
C24_ClosureAfterLeaving ==
    fk.why = "closed" => fk.far

(***************************************************************************)
(* The potential.                                                          *)
(***************************************************************************)
\* C23: phi_calc ends for every finite sum, and after it the potential of
\* every cell is above -pi and at most pi; a triangle whose centroid is the
\* centre of the cell leaves the sum of that cell as it was.
C23_PotentialWrapped ==
    /\ [](ar.pc = "phi_done" =>
            \A m \in 0 .. NCells - 1 :
                ~ar.phi[m].big /\ ar.phi[m].k > 0 - Pi /\ ar.phi[m].k <= Pi)
    /\ []((ar.pc = "phi_sum" /\ ar.s = 1 /\ AtCentroid(ar.surface[1], ar.c)) =>
            ar.sum[ar.c] = Angle(0))
    /\ <>(ar.pc = "phi_done")

\* the trilinear interpolation of the c-th central difference of u over
\* the first n neighbours of the cell, in units of 1/80
RECURSIVE Interpolated(_, _, _, _, _, _)
Interpolated(u, cell, d, per, c, n) ==
    IF n = 0 THEN 0
    ELSE Interpolated(u, cell, d, per, c, n - 1)
         + Prefactor(n - 1, d)
           * Gradient(u, TwCell(cell, n - 1, per)[1], TwCell(cell, n - 1, per)[2],
                      TwCell(cell, n - 1, per)[3], per)[c]

\* C25: when the frame of a curve point is computed, each of dxu, dyu and
\* dzu has been added to once for each of the 8 enclosing cells and is the
\* trilinear interpolation of the x, y or z central difference of u, the z
\* difference taken between the z neighbours of the active policy; this
\* under the reflecting and under the periodic policy
C25_GradientAllComponents ==
    crv.pc = "tw_done" =>
        /\ crv.terms = << 8, 8, 8 >>
        /\ \A c \in 1 .. 3 :
             crv.du[c] = Interpolated(crv.u, crv.cell, crv.d, crv.per, c, 8)

\* C21: while a point of the curve is placed, every index pair that
\* subscripts x and y lies in the grid, in find_knot_properties and in
\* my_f and my_df at the points the minimiser evaluates them at, and so
\* does every cell of ucvx, ucvy, ucvz read around it
C21_ReadsInsideGrid ==
    \A idx \in fk.reads :
        /\ idx \in GridIndices
        /\ FieldReads(idx) \subseteq GridIndices
====
